---- MODULE Spec2Model ----
(***************************************************************************)
(* School LMS API (main.py): document serialization, per-collection        *)
(* listing order, creation endpoints and demo-data seeding.                *)
(*                                                                         *)
(* Values are tagged: [t |-> type, v |-> sequence of integers].            *)
(*   "str"       v = the string's code points                              *)
(*   "datetime"  v = <<whole hours since datetime.min>> (naive UTC)        *)
(*   "oid"       v = <<the ObjectId's 12-byte value as a number>>          *)
(*   "none"      v = <<>>  (Python None)                                   *)
(*   "int", "float"  v = <<the number>>                                    *)
(*   "list"      v = the code-point sequences of a list of strings         *)
(* A document is a function from field names to values.                    *)
(***************************************************************************)
EXTENDS Integers, Sequences, FiniteSets, TLC

VARIABLES db, store, nextId, seedInserts, op, status, message, limit, fetched, objs, perm, arg, ret

vars == <<db, store, nextId, seedInserts, op, status, message, limit, fetched, objs, perm, arg, ret>>

\* ------------------------------------------------------------------ bounds
\* longest drawn sequence of fetched records (SpecPure)
MaxLen == 3
\* records the creation endpoints store in one explored behaviour of the
\* writing endpoints (SpecWrites)
MaxCreates == 2
\* records the creation endpoints store in one explored behaviour of the
\* whole API (Spec)
MaxStored == 1
\* largest explicit limit argument of a listing request
MaxLimit == 2

\* ------------------------------------------------------------------ values
Str(codes) == [t |-> "str", v |-> codes]
DateTime(hours) == [t |-> "datetime", v |-> <<hours>>]
ObjectId(n) == [t |-> "oid", v |-> <<n>>]
None == [t |-> "none", v |-> <<>>]
IntVal(n) == [t |-> "int", v |-> <<n>>]
FloatVal(n) == [t |-> "float", v |-> <<n>>]
StrList(items) == [t |-> "list", v |-> items]

\* datetime.min, 0001-01-01T00:00:00
datetime_min == DateTime(0)

EmptyDoc == [k \in {} |-> None]

\* dict.get(key, default)
get(doc, key, default) == IF key \in DOMAIN doc THEN doc[key] ELSE default

\* ------------------------------------------------------------------ Unicode tables
\* from the Unicode 14.0.0 character database of the interpreter (unicodedata)
\* code points above 127 with a one-code-point lowercase: <<first, last, stride, offset>>
LowerGroups == <<
    <<192, 214, 1, 32>>, <<216, 222, 1, 32>>, <<256, 302, 2, 1>>, <<306, 310, 2, 1>>, <<313, 327, 2, 1>>,
    <<330, 374, 2, 1>>, <<376, 376, 1, -121>>, <<377, 381, 2, 1>>, <<385, 385, 1, 210>>,
    <<386, 388, 2, 1>>, <<390, 390, 1, 206>>, <<391, 391, 1, 1>>, <<393, 394, 1, 205>>,
    <<395, 395, 1, 1>>, <<398, 398, 1, 79>>, <<399, 399, 1, 202>>, <<400, 400, 1, 203>>,
    <<401, 401, 1, 1>>, <<403, 403, 1, 205>>, <<404, 404, 1, 207>>, <<406, 406, 1, 211>>,
    <<407, 407, 1, 209>>, <<408, 408, 1, 1>>, <<412, 412, 1, 211>>, <<413, 413, 1, 213>>,
    <<415, 415, 1, 214>>, <<416, 420, 2, 1>>, <<422, 422, 1, 218>>, <<423, 423, 1, 1>>,
    <<425, 425, 1, 218>>, <<428, 428, 1, 1>>, <<430, 430, 1, 218>>, <<431, 431, 1, 1>>,
    <<433, 434, 1, 217>>, <<435, 437, 2, 1>>, <<439, 439, 1, 219>>, <<440, 440, 1, 1>>,
    <<444, 444, 1, 1>>, <<452, 452, 1, 2>>, <<453, 453, 1, 1>>, <<455, 455, 1, 2>>, <<456, 456, 1, 1>>,
    <<458, 458, 1, 2>>, <<459, 475, 2, 1>>, <<478, 494, 2, 1>>, <<497, 497, 1, 2>>, <<498, 500, 2, 1>>,
    <<502, 502, 1, -97>>, <<503, 503, 1, -56>>, <<504, 542, 2, 1>>, <<544, 544, 1, -130>>,
    <<546, 562, 2, 1>>, <<570, 570, 1, 10795>>, <<571, 571, 1, 1>>, <<573, 573, 1, -163>>,
    <<574, 574, 1, 10792>>, <<577, 577, 1, 1>>, <<579, 579, 1, -195>>, <<580, 580, 1, 69>>,
    <<581, 581, 1, 71>>, <<582, 590, 2, 1>>, <<880, 882, 2, 1>>, <<886, 886, 1, 1>>,
    <<895, 895, 1, 116>>, <<902, 902, 1, 38>>, <<904, 906, 1, 37>>, <<908, 908, 1, 64>>,
    <<910, 911, 1, 63>>, <<913, 929, 1, 32>>, <<931, 939, 1, 32>>, <<975, 975, 1, 8>>,
    <<984, 1006, 2, 1>>, <<1012, 1012, 1, -60>>, <<1015, 1015, 1, 1>>, <<1017, 1017, 1, -7>>,
    <<1018, 1018, 1, 1>>, <<1021, 1023, 1, -130>>, <<1024, 1039, 1, 80>>, <<1040, 1071, 1, 32>>,
    <<1120, 1152, 2, 1>>, <<1162, 1214, 2, 1>>, <<1216, 1216, 1, 15>>, <<1217, 1229, 2, 1>>,
    <<1232, 1326, 2, 1>>, <<1329, 1366, 1, 48>>, <<4256, 4293, 1, 7264>>, <<4295, 4295, 1, 7264>>,
    <<4301, 4301, 1, 7264>>, <<5024, 5103, 1, 38864>>, <<5104, 5109, 1, 8>>, <<7312, 7354, 1, -3008>>,
    <<7357, 7359, 1, -3008>>, <<7680, 7828, 2, 1>>, <<7838, 7838, 1, -7615>>, <<7840, 7934, 2, 1>>,
    <<7944, 7951, 1, -8>>, <<7960, 7965, 1, -8>>, <<7976, 7983, 1, -8>>, <<7992, 7999, 1, -8>>,
    <<8008, 8013, 1, -8>>, <<8025, 8031, 2, -8>>, <<8040, 8047, 1, -8>>, <<8072, 8079, 1, -8>>,
    <<8088, 8095, 1, -8>>, <<8104, 8111, 1, -8>>, <<8120, 8121, 1, -8>>, <<8122, 8123, 1, -74>>,
    <<8124, 8124, 1, -9>>, <<8136, 8139, 1, -86>>, <<8140, 8140, 1, -9>>, <<8152, 8153, 1, -8>>,
    <<8154, 8155, 1, -100>>, <<8168, 8169, 1, -8>>, <<8170, 8171, 1, -112>>, <<8172, 8172, 1, -7>>,
    <<8184, 8185, 1, -128>>, <<8186, 8187, 1, -126>>, <<8188, 8188, 1, -9>>, <<8486, 8486, 1, -7517>>,
    <<8490, 8490, 1, -8383>>, <<8491, 8491, 1, -8262>>, <<8498, 8498, 1, 28>>, <<8544, 8559, 1, 16>>,
    <<8579, 8579, 1, 1>>, <<9398, 9423, 1, 26>>, <<11264, 11311, 1, 48>>, <<11360, 11360, 1, 1>>,
    <<11362, 11362, 1, -10743>>, <<11363, 11363, 1, -3814>>, <<11364, 11364, 1, -10727>>,
    <<11367, 11371, 2, 1>>, <<11373, 11373, 1, -10780>>, <<11374, 11374, 1, -10749>>,
    <<11375, 11375, 1, -10783>>, <<11376, 11376, 1, -10782>>, <<11378, 11378, 1, 1>>,
    <<11381, 11381, 1, 1>>, <<11390, 11391, 1, -10815>>, <<11392, 11490, 2, 1>>, <<11499, 11501, 2, 1>>,
    <<11506, 11506, 1, 1>>, <<42560, 42604, 2, 1>>, <<42624, 42650, 2, 1>>, <<42786, 42798, 2, 1>>,
    <<42802, 42862, 2, 1>>, <<42873, 42875, 2, 1>>, <<42877, 42877, 1, -35332>>, <<42878, 42886, 2, 1>>,
    <<42891, 42891, 1, 1>>, <<42893, 42893, 1, -42280>>, <<42896, 42898, 2, 1>>, <<42902, 42920, 2, 1>>,
    <<42922, 42922, 1, -42308>>, <<42923, 42923, 1, -42319>>, <<42924, 42924, 1, -42315>>,
    <<42925, 42925, 1, -42305>>, <<42926, 42926, 1, -42308>>, <<42928, 42928, 1, -42258>>,
    <<42929, 42929, 1, -42282>>, <<42930, 42930, 1, -42261>>, <<42931, 42931, 1, 928>>,
    <<42932, 42946, 2, 1>>, <<42948, 42948, 1, -48>>, <<42949, 42949, 1, -42307>>,
    <<42950, 42950, 1, -35384>>, <<42951, 42953, 2, 1>>, <<42960, 42960, 1, 1>>, <<42966, 42968, 2, 1>>,
    <<42997, 42997, 1, 1>>, <<65313, 65338, 1, 32>>, <<66560, 66599, 1, 40>>, <<66736, 66771, 1, 40>>,
    <<66928, 66964, 2, 39>>, <<66929, 66937, 2, 39>>, <<66941, 66953, 2, 39>>, <<66957, 66961, 2, 39>>,
    <<66965, 66965, 1, 39>>, <<68736, 68786, 1, 64>>, <<71840, 71871, 1, 32>>, <<93760, 93791, 1, 32>>,
    <<125184, 125217, 1, 34>> >>

\* case-ignorable code points (skipped when str.lower() looks around a capital sigma): <<first, last>>
CaseIgnorableRanges == <<
    <<39, 39>>, <<46, 46>>, <<58, 58>>, <<94, 94>>, <<96, 96>>, <<168, 168>>, <<173, 173>>, <<175, 175>>,
    <<180, 180>>, <<183, 184>>, <<688, 879>>, <<884, 885>>, <<890, 890>>, <<900, 901>>, <<903, 903>>,
    <<1155, 1161>>, <<1369, 1369>>, <<1375, 1375>>, <<1425, 1469>>, <<1471, 1471>>, <<1473, 1474>>,
    <<1476, 1477>>, <<1479, 1479>>, <<1524, 1524>>, <<1536, 1541>>, <<1552, 1562>>, <<1564, 1564>>,
    <<1600, 1600>>, <<1611, 1631>>, <<1648, 1648>>, <<1750, 1757>>, <<1759, 1768>>, <<1770, 1773>>,
    <<1807, 1807>>, <<1809, 1809>>, <<1840, 1866>>, <<1958, 1968>>, <<2027, 2037>>, <<2042, 2042>>,
    <<2045, 2045>>, <<2070, 2093>>, <<2137, 2139>>, <<2184, 2184>>, <<2192, 2193>>, <<2200, 2207>>,
    <<2249, 2306>>, <<2362, 2362>>, <<2364, 2364>>, <<2369, 2376>>, <<2381, 2381>>, <<2385, 2391>>,
    <<2402, 2403>>, <<2417, 2417>>, <<2433, 2433>>, <<2492, 2492>>, <<2497, 2500>>, <<2509, 2509>>,
    <<2530, 2531>>, <<2558, 2558>>, <<2561, 2562>>, <<2620, 2620>>, <<2625, 2626>>, <<2631, 2632>>,
    <<2635, 2637>>, <<2641, 2641>>, <<2672, 2673>>, <<2677, 2677>>, <<2689, 2690>>, <<2748, 2748>>,
    <<2753, 2757>>, <<2759, 2760>>, <<2765, 2765>>, <<2786, 2787>>, <<2810, 2815>>, <<2817, 2817>>,
    <<2876, 2876>>, <<2879, 2879>>, <<2881, 2884>>, <<2893, 2893>>, <<2901, 2902>>, <<2914, 2915>>,
    <<2946, 2946>>, <<3008, 3008>>, <<3021, 3021>>, <<3072, 3072>>, <<3076, 3076>>, <<3132, 3132>>,
    <<3134, 3136>>, <<3142, 3144>>, <<3146, 3149>>, <<3157, 3158>>, <<3170, 3171>>, <<3201, 3201>>,
    <<3260, 3260>>, <<3263, 3263>>, <<3270, 3270>>, <<3276, 3277>>, <<3298, 3299>>, <<3328, 3329>>,
    <<3387, 3388>>, <<3393, 3396>>, <<3405, 3405>>, <<3426, 3427>>, <<3457, 3457>>, <<3530, 3530>>,
    <<3538, 3540>>, <<3542, 3542>>, <<3633, 3633>>, <<3636, 3642>>, <<3654, 3662>>, <<3761, 3761>>,
    <<3764, 3772>>, <<3782, 3782>>, <<3784, 3789>>, <<3864, 3865>>, <<3893, 3893>>, <<3895, 3895>>,
    <<3897, 3897>>, <<3953, 3966>>, <<3968, 3972>>, <<3974, 3975>>, <<3981, 3991>>, <<3993, 4028>>,
    <<4038, 4038>>, <<4141, 4144>>, <<4146, 4151>>, <<4153, 4154>>, <<4157, 4158>>, <<4184, 4185>>,
    <<4190, 4192>>, <<4209, 4212>>, <<4226, 4226>>, <<4229, 4230>>, <<4237, 4237>>, <<4253, 4253>>,
    <<4348, 4348>>, <<4957, 4959>>, <<5906, 5908>>, <<5938, 5939>>, <<5970, 5971>>, <<6002, 6003>>,
    <<6068, 6069>>, <<6071, 6077>>, <<6086, 6086>>, <<6089, 6099>>, <<6103, 6103>>, <<6109, 6109>>,
    <<6155, 6159>>, <<6211, 6211>>, <<6277, 6278>>, <<6313, 6313>>, <<6432, 6434>>, <<6439, 6440>>,
    <<6450, 6450>>, <<6457, 6459>>, <<6679, 6680>>, <<6683, 6683>>, <<6742, 6742>>, <<6744, 6750>>,
    <<6752, 6752>>, <<6754, 6754>>, <<6757, 6764>>, <<6771, 6780>>, <<6783, 6783>>, <<6823, 6823>>,
    <<6832, 6862>>, <<6912, 6915>>, <<6964, 6964>>, <<6966, 6970>>, <<6972, 6972>>, <<6978, 6978>>,
    <<7019, 7027>>, <<7040, 7041>>, <<7074, 7077>>, <<7080, 7081>>, <<7083, 7085>>, <<7142, 7142>>,
    <<7144, 7145>>, <<7149, 7149>>, <<7151, 7153>>, <<7212, 7219>>, <<7222, 7223>>, <<7288, 7293>>,
    <<7376, 7378>>, <<7380, 7392>>, <<7394, 7400>>, <<7405, 7405>>, <<7412, 7412>>, <<7416, 7417>>,
    <<7468, 7530>>, <<7544, 7544>>, <<7579, 7679>>, <<8125, 8125>>, <<8127, 8129>>, <<8141, 8143>>,
    <<8157, 8159>>, <<8173, 8175>>, <<8189, 8190>>, <<8203, 8207>>, <<8216, 8217>>, <<8228, 8228>>,
    <<8231, 8231>>, <<8234, 8238>>, <<8288, 8292>>, <<8294, 8303>>, <<8305, 8305>>, <<8319, 8319>>,
    <<8336, 8348>>, <<8400, 8432>>, <<11388, 11389>>, <<11503, 11505>>, <<11631, 11631>>,
    <<11647, 11647>>, <<11744, 11775>>, <<11823, 11823>>, <<12293, 12293>>, <<12330, 12333>>,
    <<12337, 12341>>, <<12347, 12347>>, <<12441, 12446>>, <<12540, 12542>>, <<40981, 40981>>,
    <<42232, 42237>>, <<42508, 42508>>, <<42607, 42610>>, <<42612, 42621>>, <<42623, 42623>>,
    <<42652, 42655>>, <<42736, 42737>>, <<42752, 42785>>, <<42864, 42864>>, <<42888, 42890>>,
    <<42994, 42996>>, <<43000, 43001>>, <<43010, 43010>>, <<43014, 43014>>, <<43019, 43019>>,
    <<43045, 43046>>, <<43052, 43052>>, <<43204, 43205>>, <<43232, 43249>>, <<43263, 43263>>,
    <<43302, 43309>>, <<43335, 43345>>, <<43392, 43394>>, <<43443, 43443>>, <<43446, 43449>>,
    <<43452, 43453>>, <<43471, 43471>>, <<43493, 43494>>, <<43561, 43566>>, <<43569, 43570>>,
    <<43573, 43574>>, <<43587, 43587>>, <<43596, 43596>>, <<43632, 43632>>, <<43644, 43644>>,
    <<43696, 43696>>, <<43698, 43700>>, <<43703, 43704>>, <<43710, 43711>>, <<43713, 43713>>,
    <<43741, 43741>>, <<43756, 43757>>, <<43763, 43764>>, <<43766, 43766>>, <<43867, 43871>>,
    <<43881, 43883>>, <<44005, 44005>>, <<44008, 44008>>, <<44013, 44013>>, <<64286, 64286>>,
    <<64434, 64450>>, <<65024, 65039>>, <<65043, 65043>>, <<65056, 65071>>, <<65106, 65106>>,
    <<65109, 65109>>, <<65279, 65279>>, <<65287, 65287>>, <<65294, 65294>>, <<65306, 65306>>,
    <<65342, 65342>>, <<65344, 65344>>, <<65392, 65392>>, <<65438, 65439>>, <<65507, 65507>>,
    <<65529, 65531>>, <<66045, 66045>>, <<66272, 66272>>, <<66422, 66426>>, <<67456, 67461>>,
    <<67463, 67504>>, <<67506, 67514>>, <<68097, 68099>>, <<68101, 68102>>, <<68108, 68111>>,
    <<68152, 68154>>, <<68159, 68159>>, <<68325, 68326>>, <<68900, 68903>>, <<69291, 69292>>,
    <<69446, 69456>>, <<69506, 69509>>, <<69633, 69633>>, <<69688, 69702>>, <<69744, 69744>>,
    <<69747, 69748>>, <<69759, 69761>>, <<69811, 69814>>, <<69817, 69818>>, <<69821, 69821>>,
    <<69826, 69826>>, <<69837, 69837>>, <<69888, 69890>>, <<69927, 69931>>, <<69933, 69940>>,
    <<70003, 70003>>, <<70016, 70017>>, <<70070, 70078>>, <<70089, 70092>>, <<70095, 70095>>,
    <<70191, 70193>>, <<70196, 70196>>, <<70198, 70199>>, <<70206, 70206>>, <<70367, 70367>>,
    <<70371, 70378>>, <<70400, 70401>>, <<70459, 70460>>, <<70464, 70464>>, <<70502, 70508>>,
    <<70512, 70516>>, <<70712, 70719>>, <<70722, 70724>>, <<70726, 70726>>, <<70750, 70750>>,
    <<70835, 70840>>, <<70842, 70842>>, <<70847, 70848>>, <<70850, 70851>>, <<71090, 71093>>,
    <<71100, 71101>>, <<71103, 71104>>, <<71132, 71133>>, <<71219, 71226>>, <<71229, 71229>>,
    <<71231, 71232>>, <<71339, 71339>>, <<71341, 71341>>, <<71344, 71349>>, <<71351, 71351>>,
    <<71453, 71455>>, <<71458, 71461>>, <<71463, 71467>>, <<71727, 71735>>, <<71737, 71738>>,
    <<71995, 71996>>, <<71998, 71998>>, <<72003, 72003>>, <<72148, 72151>>, <<72154, 72155>>,
    <<72160, 72160>>, <<72193, 72202>>, <<72243, 72248>>, <<72251, 72254>>, <<72263, 72263>>,
    <<72273, 72278>>, <<72281, 72283>>, <<72330, 72342>>, <<72344, 72345>>, <<72752, 72758>>,
    <<72760, 72765>>, <<72767, 72767>>, <<72850, 72871>>, <<72874, 72880>>, <<72882, 72883>>,
    <<72885, 72886>>, <<73009, 73014>>, <<73018, 73018>>, <<73020, 73021>>, <<73023, 73029>>,
    <<73031, 73031>>, <<73104, 73105>>, <<73109, 73109>>, <<73111, 73111>>, <<73459, 73460>>,
    <<78896, 78904>>, <<92912, 92916>>, <<92976, 92982>>, <<92992, 92995>>, <<94031, 94031>>,
    <<94095, 94111>>, <<94176, 94177>>, <<94179, 94180>>, <<110576, 110579>>, <<110581, 110587>>,
    <<110589, 110590>>, <<113821, 113822>>, <<113824, 113827>>, <<118528, 118573>>, <<118576, 118598>>,
    <<119143, 119145>>, <<119155, 119170>>, <<119173, 119179>>, <<119210, 119213>>, <<119362, 119364>>,
    <<121344, 121398>>, <<121403, 121452>>, <<121461, 121461>>, <<121476, 121476>>, <<121499, 121503>>,
    <<121505, 121519>>, <<122880, 122886>>, <<122888, 122904>>, <<122907, 122913>>, <<122915, 122916>>,
    <<122918, 122922>>, <<123184, 123197>>, <<123566, 123566>>, <<123628, 123631>>, <<125136, 125142>>,
    <<125252, 125259>>, <<127995, 127999>>, <<917505, 917505>>, <<917536, 917631>>, <<917760, 917999>> >>

\* cased code points that are not case-ignorable: <<first, last>>
CasedRanges == <<
    <<65, 90>>, <<97, 122>>, <<170, 170>>, <<181, 181>>, <<186, 186>>, <<192, 214>>, <<216, 246>>,
    <<248, 442>>, <<444, 447>>, <<452, 659>>, <<661, 687>>, <<880, 883>>, <<886, 887>>, <<891, 893>>,
    <<895, 895>>, <<902, 902>>, <<904, 906>>, <<908, 908>>, <<910, 929>>, <<931, 1013>>, <<1015, 1153>>,
    <<1162, 1327>>, <<1329, 1366>>, <<1376, 1416>>, <<4256, 4293>>, <<4295, 4295>>, <<4301, 4301>>,
    <<4304, 4346>>, <<4349, 4351>>, <<5024, 5109>>, <<5112, 5117>>, <<7296, 7304>>, <<7312, 7354>>,
    <<7357, 7359>>, <<7424, 7467>>, <<7531, 7543>>, <<7545, 7578>>, <<7680, 7957>>, <<7960, 7965>>,
    <<7968, 8005>>, <<8008, 8013>>, <<8016, 8023>>, <<8025, 8025>>, <<8027, 8027>>, <<8029, 8029>>,
    <<8031, 8061>>, <<8064, 8116>>, <<8118, 8124>>, <<8126, 8126>>, <<8130, 8132>>, <<8134, 8140>>,
    <<8144, 8147>>, <<8150, 8155>>, <<8160, 8172>>, <<8178, 8180>>, <<8182, 8188>>, <<8450, 8450>>,
    <<8455, 8455>>, <<8458, 8467>>, <<8469, 8469>>, <<8473, 8477>>, <<8484, 8484>>, <<8486, 8486>>,
    <<8488, 8488>>, <<8490, 8493>>, <<8495, 8500>>, <<8505, 8505>>, <<8508, 8511>>, <<8517, 8521>>,
    <<8526, 8526>>, <<8544, 8575>>, <<8579, 8580>>, <<9398, 9449>>, <<11264, 11387>>, <<11390, 11492>>,
    <<11499, 11502>>, <<11506, 11507>>, <<11520, 11557>>, <<11559, 11559>>, <<11565, 11565>>,
    <<42560, 42605>>, <<42624, 42651>>, <<42786, 42863>>, <<42865, 42887>>, <<42891, 42894>>,
    <<42896, 42954>>, <<42960, 42961>>, <<42963, 42963>>, <<42965, 42969>>, <<42997, 42998>>,
    <<43002, 43002>>, <<43824, 43866>>, <<43872, 43880>>, <<43888, 43967>>, <<64256, 64262>>,
    <<64275, 64279>>, <<65313, 65338>>, <<65345, 65370>>, <<66560, 66639>>, <<66736, 66771>>,
    <<66776, 66811>>, <<66928, 66938>>, <<66940, 66954>>, <<66956, 66962>>, <<66964, 66965>>,
    <<66967, 66977>>, <<66979, 66993>>, <<66995, 67001>>, <<67003, 67004>>, <<68736, 68786>>,
    <<68800, 68850>>, <<71840, 71903>>, <<93760, 93823>>, <<119808, 119892>>, <<119894, 119964>>,
    <<119966, 119967>>, <<119970, 119970>>, <<119973, 119974>>, <<119977, 119980>>, <<119982, 119993>>,
    <<119995, 119995>>, <<119997, 120003>>, <<120005, 120069>>, <<120071, 120074>>, <<120077, 120084>>,
    <<120086, 120092>>, <<120094, 120121>>, <<120123, 120126>>, <<120128, 120132>>, <<120134, 120134>>,
    <<120138, 120144>>, <<120146, 120485>>, <<120488, 120512>>, <<120514, 120538>>, <<120540, 120570>>,
    <<120572, 120596>>, <<120598, 120628>>, <<120630, 120654>>, <<120656, 120686>>, <<120688, 120712>>,
    <<120714, 120744>>, <<120746, 120770>>, <<120772, 120779>>, <<122624, 122633>>, <<122635, 122654>>,
    <<125184, 125251>>, <<127280, 127305>>, <<127312, 127337>>, <<127344, 127369>> >>

\* code points that str.isprintable() rejects, which repr() escapes: <<first, last>>
NonPrintableRanges == <<
    <<0, 31>>, <<127, 160>>, <<173, 173>>, <<888, 889>>, <<896, 899>>, <<907, 907>>, <<909, 909>>,
    <<930, 930>>, <<1328, 1328>>, <<1367, 1368>>, <<1419, 1420>>, <<1424, 1424>>, <<1480, 1487>>,
    <<1515, 1518>>, <<1525, 1541>>, <<1564, 1564>>, <<1757, 1757>>, <<1806, 1807>>, <<1867, 1868>>,
    <<1970, 1983>>, <<2043, 2044>>, <<2094, 2095>>, <<2111, 2111>>, <<2140, 2141>>, <<2143, 2143>>,
    <<2155, 2159>>, <<2191, 2199>>, <<2274, 2274>>, <<2436, 2436>>, <<2445, 2446>>, <<2449, 2450>>,
    <<2473, 2473>>, <<2481, 2481>>, <<2483, 2485>>, <<2490, 2491>>, <<2501, 2502>>, <<2505, 2506>>,
    <<2511, 2518>>, <<2520, 2523>>, <<2526, 2526>>, <<2532, 2533>>, <<2559, 2560>>, <<2564, 2564>>,
    <<2571, 2574>>, <<2577, 2578>>, <<2601, 2601>>, <<2609, 2609>>, <<2612, 2612>>, <<2615, 2615>>,
    <<2618, 2619>>, <<2621, 2621>>, <<2627, 2630>>, <<2633, 2634>>, <<2638, 2640>>, <<2642, 2648>>,
    <<2653, 2653>>, <<2655, 2661>>, <<2679, 2688>>, <<2692, 2692>>, <<2702, 2702>>, <<2706, 2706>>,
    <<2729, 2729>>, <<2737, 2737>>, <<2740, 2740>>, <<2746, 2747>>, <<2758, 2758>>, <<2762, 2762>>,
    <<2766, 2767>>, <<2769, 2783>>, <<2788, 2789>>, <<2802, 2808>>, <<2816, 2816>>, <<2820, 2820>>,
    <<2829, 2830>>, <<2833, 2834>>, <<2857, 2857>>, <<2865, 2865>>, <<2868, 2868>>, <<2874, 2875>>,
    <<2885, 2886>>, <<2889, 2890>>, <<2894, 2900>>, <<2904, 2907>>, <<2910, 2910>>, <<2916, 2917>>,
    <<2936, 2945>>, <<2948, 2948>>, <<2955, 2957>>, <<2961, 2961>>, <<2966, 2968>>, <<2971, 2971>>,
    <<2973, 2973>>, <<2976, 2978>>, <<2981, 2983>>, <<2987, 2989>>, <<3002, 3005>>, <<3011, 3013>>,
    <<3017, 3017>>, <<3022, 3023>>, <<3025, 3030>>, <<3032, 3045>>, <<3067, 3071>>, <<3085, 3085>>,
    <<3089, 3089>>, <<3113, 3113>>, <<3130, 3131>>, <<3141, 3141>>, <<3145, 3145>>, <<3150, 3156>>,
    <<3159, 3159>>, <<3163, 3164>>, <<3166, 3167>>, <<3172, 3173>>, <<3184, 3190>>, <<3213, 3213>>,
    <<3217, 3217>>, <<3241, 3241>>, <<3252, 3252>>, <<3258, 3259>>, <<3269, 3269>>, <<3273, 3273>>,
    <<3278, 3284>>, <<3287, 3292>>, <<3295, 3295>>, <<3300, 3301>>, <<3312, 3312>>, <<3315, 3327>>,
    <<3341, 3341>>, <<3345, 3345>>, <<3397, 3397>>, <<3401, 3401>>, <<3408, 3411>>, <<3428, 3429>>,
    <<3456, 3456>>, <<3460, 3460>>, <<3479, 3481>>, <<3506, 3506>>, <<3516, 3516>>, <<3518, 3519>>,
    <<3527, 3529>>, <<3531, 3534>>, <<3541, 3541>>, <<3543, 3543>>, <<3552, 3557>>, <<3568, 3569>>,
    <<3573, 3584>>, <<3643, 3646>>, <<3676, 3712>>, <<3715, 3715>>, <<3717, 3717>>, <<3723, 3723>>,
    <<3748, 3748>>, <<3750, 3750>>, <<3774, 3775>>, <<3781, 3781>>, <<3783, 3783>>, <<3790, 3791>>,
    <<3802, 3803>>, <<3808, 3839>>, <<3912, 3912>>, <<3949, 3952>>, <<3992, 3992>>, <<4029, 4029>>,
    <<4045, 4045>>, <<4059, 4095>>, <<4294, 4294>>, <<4296, 4300>>, <<4302, 4303>>, <<4681, 4681>>,
    <<4686, 4687>>, <<4695, 4695>>, <<4697, 4697>>, <<4702, 4703>>, <<4745, 4745>>, <<4750, 4751>>,
    <<4785, 4785>>, <<4790, 4791>>, <<4799, 4799>>, <<4801, 4801>>, <<4806, 4807>>, <<4823, 4823>>,
    <<4881, 4881>>, <<4886, 4887>>, <<4955, 4956>>, <<4989, 4991>>, <<5018, 5023>>, <<5110, 5111>>,
    <<5118, 5119>>, <<5760, 5760>>, <<5789, 5791>>, <<5881, 5887>>, <<5910, 5918>>, <<5943, 5951>>,
    <<5972, 5983>>, <<5997, 5997>>, <<6001, 6001>>, <<6004, 6015>>, <<6110, 6111>>, <<6122, 6127>>,
    <<6138, 6143>>, <<6158, 6158>>, <<6170, 6175>>, <<6265, 6271>>, <<6315, 6319>>, <<6390, 6399>>,
    <<6431, 6431>>, <<6444, 6447>>, <<6460, 6463>>, <<6465, 6467>>, <<6510, 6511>>, <<6517, 6527>>,
    <<6572, 6575>>, <<6602, 6607>>, <<6619, 6621>>, <<6684, 6685>>, <<6751, 6751>>, <<6781, 6782>>,
    <<6794, 6799>>, <<6810, 6815>>, <<6830, 6831>>, <<6863, 6911>>, <<6989, 6991>>, <<7039, 7039>>,
    <<7156, 7163>>, <<7224, 7226>>, <<7242, 7244>>, <<7305, 7311>>, <<7355, 7356>>, <<7368, 7375>>,
    <<7419, 7423>>, <<7958, 7959>>, <<7966, 7967>>, <<8006, 8007>>, <<8014, 8015>>, <<8024, 8024>>,
    <<8026, 8026>>, <<8028, 8028>>, <<8030, 8030>>, <<8062, 8063>>, <<8117, 8117>>, <<8133, 8133>>,
    <<8148, 8149>>, <<8156, 8156>>, <<8176, 8177>>, <<8181, 8181>>, <<8191, 8207>>, <<8232, 8239>>,
    <<8287, 8303>>, <<8306, 8307>>, <<8335, 8335>>, <<8349, 8351>>, <<8385, 8399>>, <<8433, 8447>>,
    <<8588, 8591>>, <<9255, 9279>>, <<9291, 9311>>, <<11124, 11125>>, <<11158, 11158>>, <<11508, 11512>>,
    <<11558, 11558>>, <<11560, 11564>>, <<11566, 11567>>, <<11624, 11630>>, <<11633, 11646>>,
    <<11671, 11679>>, <<11687, 11687>>, <<11695, 11695>>, <<11703, 11703>>, <<11711, 11711>>,
    <<11719, 11719>>, <<11727, 11727>>, <<11735, 11735>>, <<11743, 11743>>, <<11870, 11903>>,
    <<11930, 11930>>, <<12020, 12031>>, <<12246, 12271>>, <<12284, 12288>>, <<12352, 12352>>,
    <<12439, 12440>>, <<12544, 12548>>, <<12592, 12592>>, <<12687, 12687>>, <<12772, 12783>>,
    <<12831, 12831>>, <<42125, 42127>>, <<42183, 42191>>, <<42540, 42559>>, <<42744, 42751>>,
    <<42955, 42959>>, <<42962, 42962>>, <<42964, 42964>>, <<42970, 42993>>, <<43053, 43055>>,
    <<43066, 43071>>, <<43128, 43135>>, <<43206, 43213>>, <<43226, 43231>>, <<43348, 43358>>,
    <<43389, 43391>>, <<43470, 43470>>, <<43482, 43485>>, <<43519, 43519>>, <<43575, 43583>>,
    <<43598, 43599>>, <<43610, 43611>>, <<43715, 43738>>, <<43767, 43776>>, <<43783, 43784>>,
    <<43791, 43792>>, <<43799, 43807>>, <<43815, 43815>>, <<43823, 43823>>, <<43884, 43887>>,
    <<44014, 44015>>, <<44026, 44031>>, <<55204, 55215>>, <<55239, 55242>>, <<55292, 63743>>,
    <<64110, 64111>>, <<64218, 64255>>, <<64263, 64274>>, <<64280, 64284>>, <<64311, 64311>>,
    <<64317, 64317>>, <<64319, 64319>>, <<64322, 64322>>, <<64325, 64325>>, <<64451, 64466>>,
    <<64912, 64913>>, <<64968, 64974>>, <<64976, 65007>>, <<65050, 65055>>, <<65107, 65107>>,
    <<65127, 65127>>, <<65132, 65135>>, <<65141, 65141>>, <<65277, 65280>>, <<65471, 65473>>,
    <<65480, 65481>>, <<65488, 65489>>, <<65496, 65497>>, <<65501, 65503>>, <<65511, 65511>>,
    <<65519, 65531>>, <<65534, 65535>>, <<65548, 65548>>, <<65575, 65575>>, <<65595, 65595>>,
    <<65598, 65598>>, <<65614, 65615>>, <<65630, 65663>>, <<65787, 65791>>, <<65795, 65798>>,
    <<65844, 65846>>, <<65935, 65935>>, <<65949, 65951>>, <<65953, 65999>>, <<66046, 66175>>,
    <<66205, 66207>>, <<66257, 66271>>, <<66300, 66303>>, <<66340, 66348>>, <<66379, 66383>>,
    <<66427, 66431>>, <<66462, 66462>>, <<66500, 66503>>, <<66518, 66559>>, <<66718, 66719>>,
    <<66730, 66735>>, <<66772, 66775>>, <<66812, 66815>>, <<66856, 66863>>, <<66916, 66926>>,
    <<66939, 66939>>, <<66955, 66955>>, <<66963, 66963>>, <<66966, 66966>>, <<66978, 66978>>,
    <<66994, 66994>>, <<67002, 67002>>, <<67005, 67071>>, <<67383, 67391>>, <<67414, 67423>>,
    <<67432, 67455>>, <<67462, 67462>>, <<67505, 67505>>, <<67515, 67583>>, <<67590, 67591>>,
    <<67593, 67593>>, <<67638, 67638>>, <<67641, 67643>>, <<67645, 67646>>, <<67670, 67670>>,
    <<67743, 67750>>, <<67760, 67807>>, <<67827, 67827>>, <<67830, 67834>>, <<67868, 67870>>,
    <<67898, 67902>>, <<67904, 67967>>, <<68024, 68027>>, <<68048, 68049>>, <<68100, 68100>>,
    <<68103, 68107>>, <<68116, 68116>>, <<68120, 68120>>, <<68150, 68151>>, <<68155, 68158>>,
    <<68169, 68175>>, <<68185, 68191>>, <<68256, 68287>>, <<68327, 68330>>, <<68343, 68351>>,
    <<68406, 68408>>, <<68438, 68439>>, <<68467, 68471>>, <<68498, 68504>>, <<68509, 68520>>,
    <<68528, 68607>>, <<68681, 68735>>, <<68787, 68799>>, <<68851, 68857>>, <<68904, 68911>>,
    <<68922, 69215>>, <<69247, 69247>>, <<69290, 69290>>, <<69294, 69295>>, <<69298, 69375>>,
    <<69416, 69423>>, <<69466, 69487>>, <<69514, 69551>>, <<69580, 69599>>, <<69623, 69631>>,
    <<69710, 69713>>, <<69750, 69758>>, <<69821, 69821>>, <<69827, 69839>>, <<69865, 69871>>,
    <<69882, 69887>>, <<69941, 69941>>, <<69960, 69967>>, <<70007, 70015>>, <<70112, 70112>>,
    <<70133, 70143>>, <<70162, 70162>>, <<70207, 70271>>, <<70279, 70279>>, <<70281, 70281>>,
    <<70286, 70286>>, <<70302, 70302>>, <<70314, 70319>>, <<70379, 70383>>, <<70394, 70399>>,
    <<70404, 70404>>, <<70413, 70414>>, <<70417, 70418>>, <<70441, 70441>>, <<70449, 70449>>,
    <<70452, 70452>>, <<70458, 70458>>, <<70469, 70470>>, <<70473, 70474>>, <<70478, 70479>>,
    <<70481, 70486>>, <<70488, 70492>>, <<70500, 70501>>, <<70509, 70511>>, <<70517, 70655>>,
    <<70748, 70748>>, <<70754, 70783>>, <<70856, 70863>>, <<70874, 71039>>, <<71094, 71095>>,
    <<71134, 71167>>, <<71237, 71247>>, <<71258, 71263>>, <<71277, 71295>>, <<71354, 71359>>,
    <<71370, 71423>>, <<71451, 71452>>, <<71468, 71471>>, <<71495, 71679>>, <<71740, 71839>>,
    <<71923, 71934>>, <<71943, 71944>>, <<71946, 71947>>, <<71956, 71956>>, <<71959, 71959>>,
    <<71990, 71990>>, <<71993, 71994>>, <<72007, 72015>>, <<72026, 72095>>, <<72104, 72105>>,
    <<72152, 72153>>, <<72165, 72191>>, <<72264, 72271>>, <<72355, 72367>>, <<72441, 72703>>,
    <<72713, 72713>>, <<72759, 72759>>, <<72774, 72783>>, <<72813, 72815>>, <<72848, 72849>>,
    <<72872, 72872>>, <<72887, 72959>>, <<72967, 72967>>, <<72970, 72970>>, <<73015, 73017>>,
    <<73019, 73019>>, <<73022, 73022>>, <<73032, 73039>>, <<73050, 73055>>, <<73062, 73062>>,
    <<73065, 73065>>, <<73103, 73103>>, <<73106, 73106>>, <<73113, 73119>>, <<73130, 73439>>,
    <<73465, 73647>>, <<73649, 73663>>, <<73714, 73726>>, <<74650, 74751>>, <<74863, 74863>>,
    <<74869, 74879>>, <<75076, 77711>>, <<77811, 77823>>, <<78895, 82943>>, <<83527, 92159>>,
    <<92729, 92735>>, <<92767, 92767>>, <<92778, 92781>>, <<92863, 92863>>, <<92874, 92879>>,
    <<92910, 92911>>, <<92918, 92927>>, <<92998, 93007>>, <<93018, 93018>>, <<93026, 93026>>,
    <<93048, 93052>>, <<93072, 93759>>, <<93851, 93951>>, <<94027, 94030>>, <<94088, 94094>>,
    <<94112, 94175>>, <<94181, 94191>>, <<94194, 94207>>, <<100344, 100351>>, <<101590, 101631>>,
    <<101641, 110575>>, <<110580, 110580>>, <<110588, 110588>>, <<110591, 110591>>, <<110883, 110927>>,
    <<110931, 110947>>, <<110952, 110959>>, <<111356, 113663>>, <<113771, 113775>>, <<113789, 113791>>,
    <<113801, 113807>>, <<113818, 113819>>, <<113824, 118527>>, <<118574, 118575>>, <<118599, 118607>>,
    <<118724, 118783>>, <<119030, 119039>>, <<119079, 119080>>, <<119155, 119162>>, <<119275, 119295>>,
    <<119366, 119519>>, <<119540, 119551>>, <<119639, 119647>>, <<119673, 119807>>, <<119893, 119893>>,
    <<119965, 119965>>, <<119968, 119969>>, <<119971, 119972>>, <<119975, 119976>>, <<119981, 119981>>,
    <<119994, 119994>>, <<119996, 119996>>, <<120004, 120004>>, <<120070, 120070>>, <<120075, 120076>>,
    <<120085, 120085>>, <<120093, 120093>>, <<120122, 120122>>, <<120127, 120127>>, <<120133, 120133>>,
    <<120135, 120137>>, <<120145, 120145>>, <<120486, 120487>>, <<120780, 120781>>, <<121484, 121498>>,
    <<121504, 121504>>, <<121520, 122623>>, <<122655, 122879>>, <<122887, 122887>>, <<122905, 122906>>,
    <<122914, 122914>>, <<122917, 122917>>, <<122923, 123135>>, <<123181, 123183>>, <<123198, 123199>>,
    <<123210, 123213>>, <<123216, 123535>>, <<123567, 123583>>, <<123642, 123646>>, <<123648, 124895>>,
    <<124903, 124903>>, <<124908, 124908>>, <<124911, 124911>>, <<124927, 124927>>, <<125125, 125126>>,
    <<125143, 125183>>, <<125260, 125263>>, <<125274, 125277>>, <<125280, 126064>>, <<126133, 126208>>,
    <<126270, 126463>>, <<126468, 126468>>, <<126496, 126496>>, <<126499, 126499>>, <<126501, 126502>>,
    <<126504, 126504>>, <<126515, 126515>>, <<126520, 126520>>, <<126522, 126522>>, <<126524, 126529>>,
    <<126531, 126534>>, <<126536, 126536>>, <<126538, 126538>>, <<126540, 126540>>, <<126544, 126544>>,
    <<126547, 126547>>, <<126549, 126550>>, <<126552, 126552>>, <<126554, 126554>>, <<126556, 126556>>,
    <<126558, 126558>>, <<126560, 126560>>, <<126563, 126563>>, <<126565, 126566>>, <<126571, 126571>>,
    <<126579, 126579>>, <<126584, 126584>>, <<126589, 126589>>, <<126591, 126591>>, <<126602, 126602>>,
    <<126620, 126624>>, <<126628, 126628>>, <<126634, 126634>>, <<126652, 126703>>, <<126706, 126975>>,
    <<127020, 127023>>, <<127124, 127135>>, <<127151, 127152>>, <<127168, 127168>>, <<127184, 127184>>,
    <<127222, 127231>>, <<127406, 127461>>, <<127491, 127503>>, <<127548, 127551>>, <<127561, 127567>>,
    <<127570, 127583>>, <<127590, 127743>>, <<128728, 128732>>, <<128749, 128751>>, <<128765, 128767>>,
    <<128884, 128895>>, <<128985, 128991>>, <<129004, 129007>>, <<129009, 129023>>, <<129036, 129039>>,
    <<129096, 129103>>, <<129114, 129119>>, <<129160, 129167>>, <<129198, 129199>>, <<129202, 129279>>,
    <<129620, 129631>>, <<129646, 129647>>, <<129653, 129655>>, <<129661, 129663>>, <<129671, 129679>>,
    <<129709, 129711>>, <<129723, 129727>>, <<129734, 129743>>, <<129754, 129759>>, <<129768, 129775>>,
    <<129783, 129791>>, <<129939, 129939>>, <<129995, 130031>>, <<130042, 131071>>, <<173792, 173823>>,
    <<177977, 177983>>, <<178206, 178207>>, <<183970, 183983>>, <<191457, 194559>>, <<195102, 196607>>,
    <<201547, 917759>>, <<918000, 1114111>> >>

\* ------------------------------------------------------------------ text
Digit(n) == 48 + n

\* "%02d" and "%04d"
Pad2(n) == <<Digit((n \div 10) % 10), Digit(n % 10)>>
Pad4(n) == <<Digit((n \div 1000) % 10), Digit((n \div 100) % 10)>> \o Pad2(n)

\* a lookup that keeps the letters' case
lower_keeps_case(s) == s

InRanges(c, T) == \E i \in 1..Len(T) : T[i][1] <= c /\ c <= T[i][2]

InLowerGroup(c, g) == g[1] <= c /\ c <= g[2] /\ (c - g[1]) % g[3] = 0

\* the lowercase of one code point: U+0130 lowers to "i" and U+0307
LowerChar(c) ==
    IF c < 128 THEN <<IF c >= 65 /\ c <= 90 THEN c + 32 ELSE c>>
    ELSE IF c = 304 THEN <<105, 775>>
    ELSE IF \E i \in 1..Len(LowerGroups) : InLowerGroup(c, LowerGroups[i])
    THEN <<c + LowerGroups[CHOOSE i \in 1..Len(LowerGroups) : InLowerGroup(c, LowerGroups[i])][4]>>
    ELSE <<c>>

\* a capital sigma (U+03A3) ends a word: a cased letter before it and none
\* after it, case-ignorable code points skipped on both sides
FinalSigma(s, i) ==
    LET before == {j \in 1..(i - 1) : ~InRanges(s[j], CaseIgnorableRanges)}
        after == {j \in (i + 1)..Len(s) : ~InRanges(s[j], CaseIgnorableRanges)}
        last == CHOOSE j \in before : \A k \in before : k <= j
        first == CHOOSE j \in after : \A k \in after : j <= k
    IN  /\ before # {}
        /\ InRanges(s[last], CasedRanges)
        /\ (after = {} \/ ~InRanges(s[first], CasedRanges))

RECURSIVE LowerFrom(_, _)
LowerFrom(s, i) ==
    IF i > Len(s) THEN <<>>
    ELSE (IF s[i] = 931 /\ FinalSigma(s, i) THEN <<962>> ELSE LowerChar(s[i])) \o LowerFrom(s, i + 1)

\* str.lower(): every cased code point is lowered
lower(s) == LowerFrom(s, 1)

\* days before the first of each month in a common year (datetime._DAYS_BEFORE_MONTH)
DaysBeforeMonth == <<0, 31, 59, 90, 120, 151, 181, 212, 243, 273, 304, 334>>

\* datetime._ord2ymd on a 0-based day count n (n = ordinal - 1)
ord2ymd(n0) ==
    LET n400 == n0 \div 146097
        r400 == n0 % 146097
        n100 == r400 \div 36524
        r100 == r400 % 36524
        n4 == r100 \div 1461
        r4 == r100 % 1461
        n1 == r4 \div 365
        n == r4 % 365
        year == n400 * 400 + 1 + n100 * 100 + n4 * 4 + n1
        leap == n1 = 3 /\ (n4 # 24 \/ n100 = 3)
        Bump(m) == IF m > 2 /\ leap THEN 1 ELSE 0
        m0 == (n + 50) \div 32
        p0 == DaysBeforeMonth[m0] + Bump(m0)
        month == IF p0 > n THEN m0 - 1 ELSE m0
        preceding == DaysBeforeMonth[month] + Bump(month)
    IN  IF n1 = 4 \/ n100 = 4
        THEN <<year - 1, 12, 31>>
        ELSE <<year, month, n - preceding + 1>>

\* datetime.isoformat(sep): YYYY-MM-DD<sep>HH:MM:SS (microsecond = 0 is omitted)
isoformat_sep(dt, sep) ==
    LET h == dt.v[1]
        ymd == ord2ymd(h \div 24)
    IN  Pad4(ymd[1]) \o (* "-" *) <<45>> \o Pad2(ymd[2]) \o (* "-" *) <<45>> \o Pad2(ymd[3])
        \o sep \o Pad2(h % 24) \o (* ":" *) <<58>> \o Pad2(0) \o (* ":" *) <<58>> \o Pad2(0)

isoformat(dt) == Str(isoformat_sep(dt, (* "T" *) <<84>>))

HexChar(d) == IF d < 10 THEN 48 + d ELSE 87 + d

RECURSIVE HexDigits(_, _)
HexDigits(n, k) == IF k = 0 THEN <<>> ELSE Append(HexDigits(n \div 16, k - 1), HexChar(n % 16))

RECURSIVE Decimal(_)
Decimal(n) == IF n < 10 THEN <<Digit(n)>> ELSE Append(Decimal(n \div 10), Digit(n % 10))

\* str(int)
IntText(n) == IF n < 0 THEN <<45>> \o Decimal(0 - n) ELSE Decimal(n)

Contains(s, c) == \E i \in 1..Len(s) : s[i] = c

\* repr() of one code point inside quotes of kind q
ReprChar(c, q) ==
    IF c = 92 THEN <<92, 92>>
    ELSE IF c = q THEN <<92, q>>
    ELSE IF c = 9 THEN <<92, 116>>
    ELSE IF c = 10 THEN <<92, 110>>
    ELSE IF c = 13 THEN <<92, 114>>
    ELSE IF ~InRanges(c, NonPrintableRanges) THEN <<c>>
    ELSE IF c < 256 THEN <<92, 120>> \o HexDigits(c, 2)
    ELSE IF c < 65536 THEN <<92, 117>> \o HexDigits(c, 4)
    ELSE <<92, 85>> \o HexDigits(c, 8)

RECURSIVE ReprFrom(_, _, _)
ReprFrom(s, i, q) == IF i > Len(s) THEN <<>> ELSE ReprChar(s[i], q) \o ReprFrom(s, i + 1, q)

\* repr(str): single quotes, double quotes when the text holds ' and no "
ReprStr(s) ==
    LET q == IF Contains(s, 39) /\ ~Contains(s, 34) THEN 34 ELSE 39
    IN  <<q>> \o ReprFrom(s, 1, q) \o <<q>>

RECURSIVE ReprItems(_, _)
ReprItems(items, i) ==
    IF i > Len(items) THEN <<>>
    ELSE (IF i > 1 THEN <<44, 32>> ELSE <<>>) \o ReprStr(items[i]) \o ReprItems(items, i + 1)

\* str(x): the code points of Python's str() of a value; a float holds a
\* whole number and prints with ".0"
str(x) ==
    CASE x.t = "str" -> x.v
      [] x.t = "oid" -> HexDigits(x.v[1], 24)
      [] x.t = "datetime" -> isoformat_sep(x, (* " " *) <<32>>)
      [] x.t = "int" -> IntText(x.v[1])
      [] x.t = "float" -> IntText(x.v[1]) \o (* ".0" *) <<46, 48>>
      [] x.t = "list" -> (* "[" *) <<91>> \o ReprItems(x.v, 1) \o (* "]" *) <<93>>
      [] OTHER -> (* "None" *) <<78, 111, 110, 101>>

\* ------------------------------------------------------------------ _serialize
\* str(v) in place of v.isoformat(): a space where ISO-8601 has the T
_serialize_str_datetime(doc) ==
    IF DOMAIN doc = {}
    THEN doc
    ELSE LET withId == [k \in DOMAIN doc \cup {"id"} |->
                           IF k = "id" THEN Str(str(get(doc, "_id", None))) ELSE doc[k]]
             popped == [k \in DOMAIN withId \ {"_id"} |-> withId[k]]
         IN  [k \in DOMAIN popped |->
                 IF popped[k].t = "datetime" THEN Str(str(popped[k])) ELSE popped[k]]

\* The dict is changed in place and returned: the value below is both the
\* returned dict and the new content of the dict that was passed in.
_serialize(doc) ==
    IF DOMAIN doc = {}
    THEN doc
    ELSE LET withId == [k \in DOMAIN doc \cup {"id"} |->
                           IF k = "id" THEN Str(str(get(doc, "_id", None))) ELSE doc[k]]
             popped == [k \in DOMAIN withId \ {"_id"} |-> withId[k]]
         IN  [k \in DOMAIN popped |->
                 IF popped[k].t = "datetime" THEN isoformat(popped[k]) ELSE popped[k]]


\* ------------------------------------------------------------------ sorted()
\* a < b on sequences of integers, lexicographically (str < str on code points)
RECURSIVE KeyLt(_, _)
KeyLt(a, b) ==
    IF b = <<>> THEN FALSE
    ELSE IF a = <<>> THEN TRUE
    ELSE IF Head(a) # Head(b) THEN Head(a) < Head(b)
    ELSE KeyLt(Tail(a), Tail(b))

\* list < list on lists of strings: the first differing items decide
RECURSIVE ListLt(_, _)
ListLt(a, b) ==
    IF b = <<>> THEN FALSE
    ELSE IF a = <<>> THEN TRUE
    ELSE IF Head(a) # Head(b) THEN KeyLt(Head(a), Head(b))
    ELSE ListLt(Tail(a), Tail(b))

\* the key of list_schedule: the tuple (weekday index, start_time text)
Tuple(index, text) == [t |-> "tuple", v |-> <<index, text>>]

IsNumber(x) == x.t \in {"int", "float"}

\* a < b is defined: both datetimes (naive), both numbers, or both of one of
\* str, list, ObjectId, tuple; None supports no ordering, not even with None
Comparable(a, b) ==
    \/ IsNumber(a) /\ IsNumber(b)
    \/ a.t = b.t /\ a.t \in {"datetime", "str", "list", "oid", "tuple"}

\* a < b for comparable values
ValueLt(a, b) ==
    CASE a.t = "str" -> KeyLt(a.v, b.v)
      [] a.t = "list" -> ListLt(a.v, b.v)
      [] a.t = "tuple" -> IF a.v[1] # b.v[1] THEN a.v[1] < b.v[1] ELSE KeyLt(a.v[2], b.v[2])
      [] OTHER -> a.v[1] < b.v[1]

\* what a sort answers when a comparison raises TypeError (positions start at 1)
SortFailed == <<0>>

\* insertion of list.sort: x goes before the first element whose key is
\* greater than x's, so after every element whose key is equal; a comparison
\* of two keys that have no order raises TypeError. Whichever pairs a sort
\* compares, it raises exactly when two or more keys are not all comparable
\* with each other, and otherwise the stable order is unique.
RECURSIVE InsertByKey(_, _, _)
InsertByKey(s, x, keys) ==
    IF s = SortFailed THEN SortFailed
    ELSE IF s = <<>> THEN <<x>>
    ELSE IF ~Comparable(keys[x], keys[Head(s)]) THEN SortFailed
    ELSE IF ValueLt(keys[x], keys[Head(s)]) THEN <<x>> \o s
    ELSE LET rest == InsertByKey(Tail(s), x, keys)
         IN  IF rest = SortFailed THEN SortFailed ELSE <<Head(s)>> \o rest

RECURSIVE SortByKey(_, _)
SortByKey(idx, keys) ==
    IF idx = <<>> THEN <<>>
    ELSE InsertByKey(SortByKey(SubSeq(idx, 1, Len(idx) - 1), keys), idx[Len(idx)], keys)

Reverse(s) == [i \in 1..Len(s) |-> s[Len(s) + 1 - i]]

\* sort-and-reverse: what list.sort(reverse=True) must not do (it breaks ties backwards)
sorted_reversed_after(keys, reverse) ==
    LET idx == [i \in 1..Len(keys) |-> i]
    IN  IF reverse THEN Reverse(SortByKey(idx, keys)) ELSE SortByKey(idx, keys)

\* reverse=True left out
sorted_ascending(keys, reverse) == SortByKey([i \in 1..Len(keys) |-> i], keys)

\* a range one short: the last record is never placed
sorted_drops_last(keys, reverse) ==
    LET idx == [i \in 1..(Len(keys) - 1) |-> i]
    IN  IF reverse THEN Reverse(SortByKey(Reverse(idx), keys)) ELSE SortByKey(idx, keys)

\* sorted(docs, key=..., reverse=...): the positions of docs in sorted order,
\* or SortFailed when comparing two keys raises TypeError.
\* reverse=True reverses the list, sorts it, and reverses the result, which
\* keeps elements with equal keys in their original order.
sorted(keys, reverse) ==
    LET idx == [i \in 1..Len(keys) |-> i]
    IN  IF reverse THEN Reverse(SortByKey(Reverse(idx), keys)) ELSE SortByKey(idx, keys)

\* ------------------------------------------------------------------ sort keys
\* datetime.max (9999-12-31T23:00) as the default of a missing field
date_key_missing_latest(d, field) == get(d, field, DateTime(87649415))

\* key=lambda d: d.get(<field>, datetime.min)
date_key(d, field) == get(d, field, datetime_min)

\* the order dict of list_schedule
order == <<(* "monday" *) <<109, 111, 110, 100, 97, 121>>, (* "tuesday" *) <<116, 117, 101, 115, 100, 97, 121>>, (* "wednesday" *) <<119, 101, 100, 110, 101, 115, 100, 97, 121>>, (* "thursday" *) <<116, 104, 117, 114, 115, 100, 97, 121>>, (* "friday" *) <<102, 114, 105, 100, 97, 121>>, (* "saturday" *) <<115, 97, 116, 117, 114, 100, 97, 121>>, (* "sunday" *) <<115, 117, 110, 100, 97, 121>>>>

order_get(name, default) ==
    IF \E i \in 1..Len(order) : order[i] = name
    THEN (CHOOSE i \in 1..Len(order) : order[i] = name) - 1
    ELSE default

\* key=lambda d: (order.get(str(d.get("day", "")).lower(), 7), str(d.get("start_time", "")))
schedule_key(d) ==
    Tuple(order_get(lower(str(get(d, "day", Str(<<>>)))), 7), str(get(d, "start_time", Str(<<>>))))

\* ------------------------------------------------------------------ store access
Collections == {"feedpost", "scheduleitem", "lesson", "grade", "assessment", "student"}

StoreUnavailable == "Database not configured"

StoreQueryFailed == "StoreQueryFailed"

\* database.get_documents(collection_name, filter_dict, limit): the records of
\* the collection in store order, at most `limit` of them when a limit is given;
\* `rejected`: the store rejects the query
get_documents(coll, lim, rejected) ==
    IF ~db
    THEN [err |-> StoreUnavailable, docs |-> <<>>]
    ELSE IF rejected
    THEN [err |-> StoreQueryFailed, docs |-> <<>>]
    ELSE LET all == store[coll]
             n == IF lim = <<>> \/ lim[1] >= Len(all) THEN Len(all) ELSE lim[1]
         IN  [err |-> "ok", docs |-> SubSeq(all, 1, n)]

\* db[name] without the check: subscripting None raises TypeError
_collection_unguarded(name) == IF ~db THEN "TypeError" ELSE "ok"

\* _collection(name): the outcome of the call
_collection(name) == IF ~db THEN StoreUnavailable ELSE "ok"

\* ------------------------------------------------------------------ responses
Result(o, st, msg, lim, f, ob, p, a, r) ==
    /\ op' = o
    /\ status' = st
    /\ message' = msg
    /\ limit' = lim
    /\ fetched' = f
    /\ objs' = ob
    /\ perm' = p
    /\ arg' = a
    /\ ret' = r

\* the handler ends in an exception raised before anything was stored or
\* fetched: nothing of the request is answered
Raised(o, st) ==
    /\ Result(o, st, "", <<>>, <<>>, <<>>, <<>>, EmptyDoc, <<>>)
    /\ UNCHANGED <<db, store, nextId, seedInserts>>

Unavailable(o) == Raised(o, StoreUnavailable)

\* docs = sorted(docs, key=...); return [_serialize(d) for d in docs]
\* When sorted() raises TypeError the request fails before any record is
\* serialized.
\* fetched: the records as get_documents returned them; perm: their positions
\* in sorted order; objs: the fetched dicts after the handler (changed in
\* place by _serialize); ret: the returned list.
Listing(o, lim, docs, keys, reverse) ==
    LET p == sorted(keys, reverse)
        after == [i \in 1..Len(docs) |-> _serialize(docs[i])]
    IN  /\ IF p = SortFailed
           THEN Result(o, "TypeError", "", lim, docs, docs, <<>>, EmptyDoc, <<>>)
           ELSE Result(o, "ok", "", lim, docs, after, p, EmptyDoc, [k \in 1..Len(p) |-> after[p[k]]])
        /\ UNCHANGED <<db, store, nextId, seedInserts>>

DateListing(o, coll, lim, field, reverse, rejected) ==
    LET got == get_documents(coll, lim, rejected)
    IN  IF got.err # "ok"
        THEN Raised(o, got.err)
        ELSE Listing(o, lim, got.docs,
                     [i \in 1..Len(got.docs) |-> date_key(got.docs[i], field)], reverse)

\* the listing handlers; `rejected`: the store rejects the query of the request
list_feed_limit == 20
list_lessons_limit == 50
list_grades_limit == 100
list_assessments_limit == 50

Limits(default) == {<<n>> : n \in 1..MaxLimit} \cup {<<default>>}

list_feed(rejected) ==
    \E lim \in Limits(list_feed_limit) :
        DateListing("list_feed", "feedpost", lim, "created_at", TRUE, rejected)

list_lessons(rejected) ==
    \E lim \in Limits(list_lessons_limit) :
        DateListing("list_lessons", "lesson", lim, "date", TRUE, rejected)

list_grades(rejected) ==
    \E lim \in Limits(list_grades_limit) :
        DateListing("list_grades", "grade", lim, "date", TRUE, rejected)

list_assessments(rejected) ==
    \E lim \in Limits(list_assessments_limit) :
        DateListing("list_assessments", "assessment", lim, "due_date", FALSE, rejected)

list_schedule(rejected) ==
    LET got == get_documents("scheduleitem", <<>>, rejected)
    IN  IF got.err # "ok"
        THEN Raised("list_schedule", got.err)
        ELSE Listing("list_schedule", <<>>, got.docs,
                     [i \in 1..Len(got.docs) |-> schedule_key(got.docs[i])], FALSE)

\* _serialize(doc) called on one dict; objs[1] is that dict after the call
serialize_call ==
    \E c \in Collections : \E i \in 0..Len(store[c]) :
        LET d == IF i = 0 THEN EmptyDoc ELSE store[c][i]
            out == _serialize(d)
        IN  /\ i = 0 => c = "student"
            /\ Result("_serialize", "ok", "", <<>>, <<>>, <<out>>, <<>>, d, <<out>>)
            /\ UNCHANGED <<db, store, nextId, seedInserts>>

\* _serialize applied again to the dict a _serialize call returned
serialize_again ==
    /\ op = "_serialize"
    /\ LET out == _serialize(objs[1])
       IN  Result("_serialize_again", "ok", "", <<>>, <<>>, <<out>>, <<>>, arg, <<out>>)
    /\ UNCHANGED <<db, store, nextId, seedInserts>>

\* ------------------------------------------------------------------ SpecPure
\* The listing handlers and _serialize over every bounded content of a
\* configured store, including records that lack their sort fields.
SeqsUpTo(S, n) == UNION {[1..k -> S] : k \in 0..n}

WithIds(payloads) == [i \in 1..Len(payloads) |-> payloads[i] @@ ("_id" :> ObjectId(i + 9))]

PureTimes == {0, 17734679, 17734690}

\* the field missing, a timestamp, or None in its place
DatePayloads(field, base) ==
    {base, base @@ (field :> None)} \cup {base @@ (field :> DateTime(t)) : t \in PureTimes}

\* no day, "Monday", "FRIDAY", "Funday", and "SUNDAY" followed by the Kelvin
\* sign U+212A, which lowers to "sundayk"
PureDays == {<<>>, <<Str((* "Monday" *) <<77, 111, 110, 100, 97, 121>>)>>, <<Str((* "FRIDAY" *) <<70, 82, 73, 68, 65, 89>>)>>, <<Str((* "Funday" *) <<70, 117, 110, 100, 97, 121>>)>>,
             <<Str(<<83, 85, 78, 68, 65, 89, 8490>>)>>}
PureStarts == {<<>>, <<Str((* "08:00" *) <<48, 56, 58, 48, 48>>)>>, <<Str((* "14:00" *) <<49, 52, 58, 48, 48>>)>>}

SchedulePayloads ==
    {(IF d = <<>> THEN EmptyDoc ELSE "day" :> d[1])
     @@ (IF s = <<>> THEN EmptyDoc ELSE "start_time" :> s[1])
     @@ ("end_time" :> Str((* "08:50" *) <<48, 56, 58, 53, 48>>)) : d \in PureDays, s \in PureStarts}

PurePayloads(c) ==
    CASE c = "feedpost" -> DatePayloads("created_at", "author_name" :> Str((* "Ms. Carter" *) <<77, 115, 46, 32, 67, 97, 114, 116, 101, 114>>))
      [] c = "lesson" -> DatePayloads("date", "title" :> Str((* "Poetry Analysis" *) <<80, 111, 101, 116, 114, 121, 32, 65, 110, 97, 108, 121, 115, 105, 115>>))
      [] c = "grade" -> DatePayloads("date", "letter" :> None)
      [] c = "assessment" -> DatePayloads("due_date", "status" :> Str((* "upcoming" *) <<117, 112, 99, 111, 109, 105, 110, 103>>))
      [] c = "scheduleitem" -> SchedulePayloads
      [] OTHER -> {}

InitPure ==
    /\ db = TRUE
    /\ \E c \in Collections : \E payloads \in SeqsUpTo(PurePayloads(c), MaxLen) :
           store = [x \in Collections |-> IF x = c THEN WithIds(payloads) ELSE <<>>]
    /\ nextId = 1
    /\ seedInserts = 0
    /\ op = "idle"
    /\ status = ""
    /\ message = ""
    /\ limit = <<>>
    /\ fetched = <<>>
    /\ objs = <<>>
    /\ perm = <<>>
    /\ arg = EmptyDoc
    /\ ret = <<>>

\* one call per drawn input, on a store that answers the query;
\* serialize_again follows a _serialize call
NextPure ==
    \/ op = "idle" /\ list_feed(FALSE)
    \/ op = "idle" /\ list_lessons(FALSE)
    \/ op = "idle" /\ list_grades(FALSE)
    \/ op = "idle" /\ list_assessments(FALSE)
    \/ op = "idle" /\ list_schedule(FALSE)
    \/ op = "idle" /\ serialize_call
    \/ serialize_again

SpecPure == InitPure /\ [][NextPure]_vars

\* ------------------------------------------------------------------ schemas
\* model_dump() of the schema classes: every declared field is present
Feedpost(author_name, author_avatar, text, image_url, created_at, likes, comments_count) ==
    [k \in {"author_name", "author_avatar", "text", "image_url", "created_at", "likes",
            "comments_count"} |->
        CASE k = "author_name" -> author_name
          [] k = "author_avatar" -> author_avatar
          [] k = "text" -> text
          [] k = "image_url" -> image_url
          [] k = "created_at" -> created_at
          [] k = "likes" -> likes
          [] OTHER -> comments_count]

Scheduleitem(day, start_time, end_time, subject, room) ==
    [k \in {"day", "start_time", "end_time", "subject", "room"} |->
        CASE k = "day" -> day
          [] k = "start_time" -> start_time
          [] k = "end_time" -> end_time
          [] k = "subject" -> subject
          [] OTHER -> room]

Lesson(title, subject, teacher, description, date, resources) ==
    [k \in {"title", "subject", "teacher", "description", "date", "resources"} |->
        CASE k = "title" -> title
          [] k = "subject" -> subject
          [] k = "teacher" -> teacher
          [] k = "description" -> description
          [] k = "date" -> date
          [] OTHER -> resources]

Grade(subject, assignment, score, total, letter, date) ==
    [k \in {"subject", "assignment", "score", "total", "letter", "date"} |->
        CASE k = "subject" -> subject
          [] k = "assignment" -> assignment
          [] k = "score" -> score
          [] k = "total" -> total
          [] k = "letter" -> letter
          [] OTHER -> date]

Assessment(title, subject, type, due_date, status_) ==
    [k \in {"title", "subject", "type", "due_date", "status"} |->
        CASE k = "title" -> title
          [] k = "subject" -> subject
          [] k = "type" -> type
          [] k = "due_date" -> due_date
          [] OTHER -> status_]

\* ------------------------------------------------------------------ creation
\* records inserted by the demo seeding, in all collections together
SeedSize == 3 + 6 + 2 + 2 + 2

\* records stored by creation requests so far; seedInserts counts the demo
\* records stored by seed_demo_data, nextId - 1 every stored record
Created == (nextId - 1) - seedInserts

\* database.create_document(collection_name, data): the record is stored under
\* a fresh identifier; the new content of the collection.
\* `rejected`: the store rejects the insert and nothing is stored
create_document(coll, data, rejected) ==
    IF ~db
    THEN [err |-> StoreUnavailable, docs |-> store[coll]]
    ELSE IF rejected
    THEN [err |-> StoreQueryFailed, docs |-> store[coll]]
    ELSE [err |-> "ok", docs |-> Append(store[coll], data @@ ("_id" :> ObjectId(nextId)))]

\* inserted_id = create_document(coll, data)
\* doc = _collection(coll).find_one({"_id": ObjectId(inserted_id)})
\* return _serialize(doc)
\* An exception of create_document leaves the store as it was; an exception of
\* find_one leaves the new record stored and the request without an answer.
Create(o, coll, data) ==
    \E rejected \in BOOLEAN, find_one_rejected \in BOOLEAN :
        LET inserted == create_document(coll, data, rejected)
        IN  IF inserted.err # "ok"
            THEN Raised(o, inserted.err)
            ELSE /\ store' = [store EXCEPT ![coll] = inserted.docs]
                 /\ nextId' = nextId + 1
                 /\ UNCHANGED <<db, seedInserts>>
                 /\ IF _collection(coll) # "ok"
                    THEN Result(o, _collection(coll), "", <<>>, <<>>, <<>>, <<>>, EmptyDoc, <<>>)
                    ELSE IF find_one_rejected
                    THEN Result(o, StoreQueryFailed, "", <<>>, <<>>, <<>>, <<>>, EmptyDoc, <<>>)
                    ELSE LET doc == data @@ ("_id" :> ObjectId(nextId))
                             out == _serialize(doc)
                         IN  Result(o, "ok", "", <<>>, <<>>, <<out>>, <<>>, doc, <<out>>)

\* values of datetime.utcnow(): 2024-03-01T10:00 and 2025-01-01T00:00
Nows == {17734690, 17742024}

\* datetimes a request body may carry: datetime.min and 2024-12-31T12:00
RequestTimes == {0, 17742012}

create_feed ==
    \E now \in Nows :
        Create("create_feed", "feedpost",
               Feedpost(Str((* "Ms. Carter" *) <<77, 115, 46, 32, 67, 97, 114, 116, 101, 114>>), None, Str((* "Hello" *) <<72, 101, 108, 108, 111>>), None, DateTime(now), IntVal(0), IntVal(0)))

create_schedule ==
    \E day \in {Str((* "monday" *) <<109, 111, 110, 100, 97, 121>>), Str((* "Funday" *) <<70, 117, 110, 100, 97, 121>>)} :
        Create("create_schedule", "scheduleitem",
               Scheduleitem(day, Str((* "07:30" *) <<48, 55, 58, 51, 48>>), Str((* "08:20" *) <<48, 56, 58, 50, 48>>), Str((* "Math" *) <<77, 97, 116, 104>>), None))

create_lesson ==
    \E date \in RequestTimes :
        Create("create_lesson", "lesson",
               Lesson(Str((* "Fractions" *) <<70, 114, 97, 99, 116, 105, 111, 110, 115>>), Str((* "Math" *) <<77, 97, 116, 104>>), Str((* "Mr. Lee" *) <<77, 114, 46, 32, 76, 101, 101>>), None, DateTime(date), None))

create_grade ==
    \E date \in RequestTimes :
        Create("create_grade", "grade",
               Grade(Str((* "Math" *) <<77, 97, 116, 104>>), Str((* "Quiz" *) <<81, 117, 105, 122>>), FloatVal(9), FloatVal(10), None, DateTime(date)))

create_assessment ==
    \E due \in RequestTimes :
        Create("create_assessment", "assessment",
               Assessment(Str((* "Quiz 1" *) <<81, 117, 105, 122, 32, 49>>), Str((* "Math" *) <<77, 97, 116, 104>>), Str((* "Quiz" *) <<81, 117, 105, 122>>), DateTime(due), Str((* "upcoming" *) <<117, 112, 99, 111, 109, 105, 110, 103>>)))

\* ------------------------------------------------------------------ seeding
\* now - timedelta(hours=h), now - timedelta(days=d), now + timedelta(days=d)
HoursAgo(now, h) == DateTime(now - h)
DaysAgo(now, d) == DateTime(now - 24 * d)
DaysAhead(now, d) == DateTime(now + 24 * d)

posts(now) == <<
    Feedpost(Str((* "Ms. Carter" *) <<77, 115, 46, 32, 67, 97, 114, 116, 101, 114>>), None, Str((* "Welcome back to the new term!" *) <<87, 101, 108, 99, 111, 109, 101, 32, 98, 97, 99, 107, 32, 116, 111, 32, 116, 104, 101, 32, 110, 101, 119, 32, 116, 101, 114, 109, 33>>), None, HoursAgo(now, 2), IntVal(12), IntVal(3)),
    Feedpost(Str((* "Sports Dept." *) <<83, 112, 111, 114, 116, 115, 32, 68, 101, 112, 116, 46>>), None, Str((* "Tryouts start Monday. Go Blue Hawks!" *) <<84, 114, 121, 111, 117, 116, 115, 32, 115, 116, 97, 114, 116, 32, 77, 111, 110, 100, 97, 121, 46, 32, 71, 111, 32, 66, 108, 117, 101, 32, 72, 97, 119, 107, 115, 33>>), None, DaysAgo(now, 1), IntVal(48), IntVal(9)),
    Feedpost(Str((* "Science Club" *) <<83, 99, 105, 101, 110, 99, 101, 32, 67, 108, 117, 98>>), None, Str((* "Lab safety workshop tomorrow." *) <<76, 97, 98, 32, 115, 97, 102, 101, 116, 121, 32, 119, 111, 114, 107, 115, 104, 111, 112, 32, 116, 111, 109, 111, 114, 114, 111, 119, 46>>), None, DaysAgo(now, 2), IntVal(20), IntVal(4)) >>

schedule == <<
    Scheduleitem(Str((* "Monday" *) <<77, 111, 110, 100, 97, 121>>), Str((* "08:00" *) <<48, 56, 58, 48, 48>>), Str((* "08:50" *) <<48, 56, 58, 53, 48>>), Str((* "Math" *) <<77, 97, 116, 104>>), Str((* "A101" *) <<65, 49, 48, 49>>)),
    Scheduleitem(Str((* "Monday" *) <<77, 111, 110, 100, 97, 121>>), Str((* "09:00" *) <<48, 57, 58, 48, 48>>), Str((* "09:50" *) <<48, 57, 58, 53, 48>>), Str((* "English" *) <<69, 110, 103, 108, 105, 115, 104>>), Str((* "B203" *) <<66, 50, 48, 51>>)),
    Scheduleitem(Str((* "Tuesday" *) <<84, 117, 101, 115, 100, 97, 121>>), Str((* "10:00" *) <<49, 48, 58, 48, 48>>), Str((* "10:50" *) <<49, 48, 58, 53, 48>>), Str((* "Chemistry" *) <<67, 104, 101, 109, 105, 115, 116, 114, 121>>), Str((* "Lab 2" *) <<76, 97, 98, 32, 50>>)),
    Scheduleitem(Str((* "Wednesday" *) <<87, 101, 100, 110, 101, 115, 100, 97, 121>>), Str((* "11:00" *) <<49, 49, 58, 48, 48>>), Str((* "11:50" *) <<49, 49, 58, 53, 48>>), Str((* "History" *) <<72, 105, 115, 116, 111, 114, 121>>), Str((* "C305" *) <<67, 51, 48, 53>>)),
    Scheduleitem(Str((* "Thursday" *) <<84, 104, 117, 114, 115, 100, 97, 121>>), Str((* "13:00" *) <<49, 51, 58, 48, 48>>), Str((* "13:50" *) <<49, 51, 58, 53, 48>>), Str((* "Physics" *) <<80, 104, 121, 115, 105, 99, 115>>), Str((* "Lab 1" *) <<76, 97, 98, 32, 49>>)),
    Scheduleitem(Str((* "Friday" *) <<70, 114, 105, 100, 97, 121>>), Str((* "14:00" *) <<49, 52, 58, 48, 48>>), Str((* "14:50" *) <<49, 52, 58, 53, 48>>), Str((* "Art" *) <<65, 114, 116>>), Str((* "D110" *) <<68, 49, 49, 48>>)) >>

lessons(now) == <<
    Lesson(Str((* "Quadratic Functions" *) <<81, 117, 97, 100, 114, 97, 116, 105, 99, 32, 70, 117, 110, 99, 116, 105, 111, 110, 115>>), Str((* "Math" *) <<77, 97, 116, 104>>), Str((* "Mr. Lee" *) <<77, 114, 46, 32, 76, 101, 101>>), Str((* "Parabolas and vertex form" *) <<80, 97, 114, 97, 98, 111, 108, 97, 115, 32, 97, 110, 100, 32, 118, 101, 114, 116, 101, 120, 32, 102, 111, 114, 109>>), DaysAgo(now, 1),
           StrList(<<(* "slides.pdf" *) <<115, 108, 105, 100, 101, 115, 46, 112, 100, 102>>, (* "practice.docx" *) <<112, 114, 97, 99, 116, 105, 99, 101, 46, 100, 111, 99, 120>>>>)),
    Lesson(Str((* "Poetry Analysis" *) <<80, 111, 101, 116, 114, 121, 32, 65, 110, 97, 108, 121, 115, 105, 115>>), Str((* "English" *) <<69, 110, 103, 108, 105, 115, 104>>), Str((* "Ms. Carter" *) <<77, 115, 46, 32, 67, 97, 114, 116, 101, 114>>), Str((* "Figurative language" *) <<70, 105, 103, 117, 114, 97, 116, 105, 118, 101, 32, 108, 97, 110, 103, 117, 97, 103, 101>>), DaysAgo(now, 2),
           StrList(<<(* "poems.pdf" *) <<112, 111, 101, 109, 115, 46, 112, 100, 102>>>>)) >>

grades(now) == <<
    Grade(Str((* "Math" *) <<77, 97, 116, 104>>), Str((* "Algebra Quiz" *) <<65, 108, 103, 101, 98, 114, 97, 32, 81, 117, 105, 122>>), FloatVal(18), FloatVal(20), Str((* "A" *) <<65>>), DaysAgo(now, 3)),
    Grade(Str((* "English" *) <<69, 110, 103, 108, 105, 115, 104>>), Str((* "Essay Draft" *) <<69, 115, 115, 97, 121, 32, 68, 114, 97, 102, 116>>), FloatVal(45), FloatVal(50), Str((* "A-" *) <<65, 45>>), DaysAgo(now, 4)) >>

assessments(now) == <<
    Assessment(Str((* "Chemistry Lab Report" *) <<67, 104, 101, 109, 105, 115, 116, 114, 121, 32, 76, 97, 98, 32, 82, 101, 112, 111, 114, 116>>), Str((* "Chemistry" *) <<67, 104, 101, 109, 105, 115, 116, 114, 121>>), Str((* "Project" *) <<80, 114, 111, 106, 101, 99, 116>>), DaysAhead(now, 2), Str((* "upcoming" *) <<117, 112, 99, 111, 109, 105, 110, 103>>)),
    Assessment(Str((* "Physics Midterm" *) <<80, 104, 121, 115, 105, 99, 115, 32, 77, 105, 100, 116, 101, 114, 109>>), Str((* "Physics" *) <<80, 104, 121, 115, 105, 99, 115>>), Str((* "Exam" *) <<69, 120, 97, 109>>), DaysAhead(now, 10), Str((* "upcoming" *) <<117, 112, 99, 111, 109, 105, 110, 103>>)) >>

\* the create_document calls of the five loops, in the order the code makes them
Calls(coll, docs) == [i \in 1..Len(docs) |-> [coll |-> coll, data |-> docs[i]]]

seed_calls(now) ==
    Calls("feedpost", posts(now)) \o Calls("scheduleitem", schedule) \o Calls("lesson", lessons(now))
        \o Calls("grade", grades(now)) \o Calls("assessment", assessments(now))

\* the content of `coll` after the first k calls stored their records under
\* the identifiers nextId, nextId + 1, ...
InsertFirst(coll, calls, k) ==
    LET stored == [i \in 1..k |-> [coll |-> calls[i].coll,
                                    doc |-> calls[i].data @@ ("_id" :> ObjectId(nextId + i - 1))]]
        Mine(r) == r.coll = coll
        mine == SelectSeq(stored, Mine)
    IN  store[coll] \o [j \in 1..Len(mine) |-> mine[j].doc]

\* the guard looking at a collection the seeding never fills
already_seeded_students == Len(store["student"]) > 0

\* _collection("feedpost").count_documents({}) > 0
already_seeded == Len(store["feedpost"]) > 0

\* count_rejected: the store rejects count_documents; k: the create_document
\* calls that store their record before the store rejects one (all of them
\* when k = Len(calls)). An exception ends the handler where it is raised,
\* the records stored before it stay.
seed_demo_data ==
    \E now \in Nows, count_rejected \in BOOLEAN :
        IF ~db
        THEN Unavailable("seed_demo_data")
        ELSE IF _collection("feedpost") # "ok"
        THEN Raised("seed_demo_data", _collection("feedpost"))
        ELSE IF count_rejected
        THEN Raised("seed_demo_data", StoreQueryFailed)
        ELSE IF already_seeded
        THEN /\ Result("seed_demo_data", "ok", "Already seeded", <<>>, <<>>, <<>>, <<>>, EmptyDoc, <<>>)
             /\ UNCHANGED <<db, store, nextId, seedInserts>>
        ELSE LET calls == seed_calls(now)
             IN  \E k \in 0..Len(calls) :
                     /\ store' = [c \in Collections |-> InsertFirst(c, calls, k)]
                     /\ nextId' = nextId + k
                     /\ seedInserts' = seedInserts + k
                     /\ db' = db
                     /\ IF k = Len(calls)
                        THEN Result("seed_demo_data", "ok", "Seeded demo content",
                                    <<>>, <<>>, <<>>, <<>>, EmptyDoc, <<>>)
                        ELSE Result("seed_demo_data", StoreQueryFailed, "",
                                    <<>>, <<>>, <<>>, <<>>, EmptyDoc, <<>>)

\* a direct call of the helper _collection(name), for known and unknown names
call_collection ==
    \E name \in {"feedpost", "student", "unknown"} :
        /\ Result("_collection", _collection(name), "", <<>>, <<>>, <<>>, <<>>, EmptyDoc, <<>>)
        /\ UNCHANGED <<db, store, nextId, seedInserts>>

\* ------------------------------------------------------------------ Spec
\* db is None when DATABASE_URL / DATABASE_NAME were not set at import time
Init ==
    /\ db \in BOOLEAN
    /\ store = [c \in Collections |-> <<>>]
    /\ nextId = 1
    /\ seedInserts = 0
    /\ op = "idle"
    /\ status = ""
    /\ message = ""
    /\ limit = <<>>
    /\ fetched = <<>>
    /\ objs = <<>>
    /\ perm = <<>>
    /\ arg = EmptyDoc
    /\ ret = <<>>

\* the response has left the server, which waits for the next request
respond ==
    /\ op # "idle"
    /\ Raised("idle", "")

\* Every endpoint of the API, one request at a time: the server takes a
\* request when the response to the one before has been sent. MaxStored
\* bounds the exploration, not the handlers: a creation request is followed up
\* while fewer than MaxStored created records are stored.
Next ==
    \/ op = "idle" /\ \E rejected \in BOOLEAN : list_feed(rejected)
    \/ op = "idle" /\ Created < MaxStored /\ create_feed
    \/ op = "idle" /\ \E rejected \in BOOLEAN : list_schedule(rejected)
    \/ op = "idle" /\ Created < MaxStored /\ create_schedule
    \/ op = "idle" /\ \E rejected \in BOOLEAN : list_lessons(rejected)
    \/ op = "idle" /\ Created < MaxStored /\ create_lesson
    \/ op = "idle" /\ \E rejected \in BOOLEAN : list_grades(rejected)
    \/ op = "idle" /\ Created < MaxStored /\ create_grade
    \/ op = "idle" /\ \E rejected \in BOOLEAN : list_assessments(rejected)
    \/ op = "idle" /\ Created < MaxStored /\ create_assessment
    \/ op = "idle" /\ seed_demo_data
    \/ op = "idle" /\ call_collection
    \/ respond

Spec == Init /\ [][Next]_vars

\* ------------------------------------------------------------------ SpecWrites
\* The endpoints that write to the store: the five creation endpoints and the
\* seeding, in any order and with any store failure, while fewer than
\* MaxCreates created records are stored. The listings and _collection read
\* the store and leave it as it is.
NextWrites ==
    \/ op = "idle" /\ Created < MaxCreates /\ create_feed
    \/ op = "idle" /\ Created < MaxCreates /\ create_schedule
    \/ op = "idle" /\ Created < MaxCreates /\ create_lesson
    \/ op = "idle" /\ Created < MaxCreates /\ create_grade
    \/ op = "idle" /\ Created < MaxCreates /\ create_assessment
    \/ op = "idle" /\ seed_demo_data
    \/ respond

SpecWrites == Init /\ [][NextWrites]_vars

\* ================================================================== properties
DateListingOps == {"list_feed", "list_lessons", "list_grades", "list_assessments"}
ListingOps == DateListingOps \cup {"list_schedule"}

\* a listing request answered with records
Listed == op \in ListingOps /\ status = "ok"

\* the date field a listing sorts on
SortField(o) ==
    CASE o = "list_feed" -> "created_at"
      [] o = "list_assessments" -> "due_date"
      [] OTHER -> "date"

Has(d, f) == f \in DOMAIN d

\* hours since the earliest possible timestamp; a record lacking the field counts as the earliest
When(d, f) == IF Has(d, f) THEN d[f].v[1] ELSE 0

\* the fetched record answered at position k
Returned(k) == fetched[perm[k]]

HexValueOfChar(c) == IF c >= 48 /\ c <= 57 THEN c - 48 ELSE c - 87

RECURSIVE HexValue(_)
HexValue(s) == IF s = <<>> THEN 0 ELSE HexValue(SubSeq(s, 1, Len(s) - 1)) * 16 + HexValueOfChar(s[Len(s)])

IsHexString(s) == \A i \in 1..Len(s) : (s[i] >= 48 /\ s[i] <= 57) \/ (s[i] >= 97 /\ s[i] <= 102)

\* x is the string form of identifier oid: 24 lower-case hex digits with its value
IsIdString(x, oid) ==
    /\ x.t = "str"
    /\ Len(x.v) = 12 * 2
    /\ IsHexString(x.v)
    /\ HexValue(x.v) = oid.v[1]

\* the answer holds, position by position, the records perm names
AnswerFollowsPerm ==
    /\ Len(ret) = Len(perm)
    /\ \A k \in 1..Len(perm) :
          /\ perm[k] \in 1..Len(fetched)
          /\ Has(ret[k], "id")
          /\ IsIdString(ret[k]["id"], Returned(k)["_id"])

\* ------------------------------------------------------------------ C1
\* C1 as stated: feedpost, lesson and grade listings are in descending order of
\* the date field, a record lacking the field counting as the earliest
\* possible value, and every record lacking the field comes after every
\* record that has it.
C1_AsStated ==
    (op \in {"list_feed", "list_lessons", "list_grades"} /\ status = "ok") =>
        LET f == SortField(op)
        IN  /\ AnswerFollowsPerm
            /\ \A j, k \in 1..Len(perm) :
                  /\ j < k => When(Returned(j), f) >= When(Returned(k), f)
                  /\ (~Has(Returned(j), f) /\ Has(Returned(k), f)) => k < j

\* C1 amended: feedpost, lesson and grade listings are in descending order of
\* the date field, a record lacking the field counting as the earliest
\* possible value, and every record lacking the field comes after every
\* record whose field is later than the earliest possible value.
C1_DescendingByDate ==
    (op \in {"list_feed", "list_lessons", "list_grades"} /\ status = "ok") =>
        LET f == SortField(op)
        IN  /\ AnswerFollowsPerm
            /\ \A j, k \in 1..Len(perm) :
                  /\ j < k => When(Returned(j), f) >= When(Returned(k), f)
                  /\ (~Has(Returned(j), f) /\ Has(Returned(k), f) /\ When(Returned(k), f) > 0) => k < j

\* a lesson listing of three records: the first fetched lacks the date and is
\* answered last, the other two are answered in swapped order
C1_Witness ==
    /\ op = "list_lessons" /\ status = "ok"
    /\ Len(ret) = 3
    /\ ~Has(fetched[1], "date")
    /\ Has(fetched[2], "date") /\ Has(fetched[3], "date")
    /\ When(fetched[2], "date") < When(fetched[3], "date")
    /\ perm = <<3, 2, 1>>

\* ------------------------------------------------------------------ C2
\* C2 as stated: the assessment listing is in ascending order of due_date, a
\* record lacking due_date counting as the earliest possible value, and every
\* record lacking due_date comes before every record that has one.
C2_AsStated ==
    (op = "list_assessments" /\ status = "ok") =>
        /\ AnswerFollowsPerm
        /\ \A j, k \in 1..Len(perm) :
              /\ j < k => When(Returned(j), "due_date") <= When(Returned(k), "due_date")
              /\ (~Has(Returned(j), "due_date") /\ Has(Returned(k), "due_date")) => j < k

\* C2 amended: the assessment listing is in ascending order of due_date, a
\* record lacking due_date counting as the earliest possible value, and every
\* record lacking due_date comes before every record whose due_date is later
\* than the earliest possible value.
C2_AscendingByDueDate ==
    (op = "list_assessments" /\ status = "ok") =>
        /\ AnswerFollowsPerm
        /\ \A j, k \in 1..Len(perm) :
              /\ j < k => When(Returned(j), "due_date") <= When(Returned(k), "due_date")
              /\ (~Has(Returned(j), "due_date") /\ Has(Returned(k), "due_date")
                    /\ When(Returned(k), "due_date") > 0) => j < k

\* an assessment listing of three records: the last fetched lacks due_date and
\* is answered first, the later of the other two was fetched first
C2_Witness ==
    /\ op = "list_assessments" /\ status = "ok"
    /\ Len(ret) = 3
    /\ ~Has(fetched[3], "due_date")
    /\ Has(fetched[1], "due_date") /\ Has(fetched[2], "due_date")
    /\ When(fetched[1], "due_date") > When(fetched[2], "due_date")
    /\ perm = <<3, 2, 1>>

\* ------------------------------------------------------------------ C3
WeekdayNames == <<(* "Monday" *) <<77, 111, 110, 100, 97, 121>>, (* "Tuesday" *) <<84, 117, 101, 115, 100, 97, 121>>, (* "Wednesday" *) <<87, 101, 100, 110, 101, 115, 100, 97, 121>>, (* "Thursday" *) <<84, 104, 117, 114, 115, 100, 97, 121>>, (* "Friday" *) <<70, 114, 105, 100, 97, 121>>, (* "Saturday" *) <<83, 97, 116, 117, 114, 100, 97, 121>>, (* "Sunday" *) <<83, 117, 110, 100, 97, 121>>>>

UpperFold(c) == IF c >= 97 /\ c <= 122 THEN c - 32 ELSE c

SameIgnoringCase(a, b) ==
    /\ Len(a) = Len(b)
    /\ \A i \in 1..Len(a) : UpperFold(a[i]) = UpperFold(b[i])

\* Monday = 0 .. Sunday = 6, whatever the case of the letters; 7 otherwise
WeekdayIndex(d) ==
    IF Has(d, "day") /\ \E i \in 1..7 : SameIgnoringCase(d["day"].v, WeekdayNames[i])
    THEN (CHOOSE i \in 1..7 : SameIgnoringCase(d["day"].v, WeekdayNames[i])) - 1
    ELSE 7

StartOf(d) == IF Has(d, "start_time") THEN d["start_time"].v ELSE <<>>

\* a <= b in the lexicographic order of strings
StrLe(a, b) ==
    \E n \in 0..Len(a) :
        /\ n <= Len(b)
        /\ \A i \in 1..n : a[i] = b[i]
        /\ (n = Len(a) \/ (n < Len(b) /\ a[n + 1] < b[n + 1]))

\* C3: the schedule listing is in ascending order of (weekday index,
\* start_time), Monday = 0 .. Sunday = 6 case-insensitively and 7 for a
\* missing or unrecognized day, so every record with an unrecognized day
\* comes after every record with a recognized weekday.
C3_ScheduleOrder ==
    (op = "list_schedule" /\ status = "ok") =>
        /\ AnswerFollowsPerm
        /\ \A j, k \in 1..Len(perm) :
              /\ j < k =>
                    \/ WeekdayIndex(Returned(j)) < WeekdayIndex(Returned(k))
                    \/ /\ WeekdayIndex(Returned(j)) = WeekdayIndex(Returned(k))
                       /\ StrLe(StartOf(Returned(j)), StartOf(Returned(k)))
              /\ (WeekdayIndex(Returned(j)) = 7 /\ WeekdayIndex(Returned(k)) < 7) => k < j
              /\ ret[k]["end_time"] = Returned(k)["end_time"]

\* "Funday" at 08:00 was fetched first and is answered last, after "FRIDAY"
\* at 14:00 and "Monday" at 14:00
C3_Witness ==
    /\ op = "list_schedule" /\ status = "ok"
    /\ Len(ret) = 3
    /\ Has(fetched[1], "day") /\ fetched[1]["day"] = Str((* "Funday" *) <<70, 117, 110, 100, 97, 121>>) /\ StartOf(fetched[1]) = (* "08:00" *) <<48, 56, 58, 48, 48>>
    /\ Has(fetched[2], "day") /\ fetched[2]["day"] = Str((* "FRIDAY" *) <<70, 82, 73, 68, 65, 89>>) /\ StartOf(fetched[2]) = (* "14:00" *) <<49, 52, 58, 48, 48>>
    /\ Has(fetched[3], "day") /\ fetched[3]["day"] = Str((* "Monday" *) <<77, 111, 110, 100, 97, 121>>) /\ StartOf(fetched[3]) = (* "14:00" *) <<49, 52, 58, 48, 48>>
    /\ perm = <<3, 2, 1>>

\* ------------------------------------------------------------------ C4
\* equal on the sort key of the listing
SameKey(a, b) ==
    IF op = "list_schedule"
    THEN WeekdayIndex(a) = WeekdayIndex(b) /\ StartOf(a) = StartOf(b)
    ELSE When(a, SortField(op)) = When(b, SortField(op))

\* C4: in every listing, two records equal on the sort key are answered in
\* the relative order in which the store returned them.
C4_Stable ==
    Listed =>
        /\ AnswerFollowsPerm
        /\ \A i, j \in 1..Len(fetched) :
              (i < j /\ SameKey(fetched[i], fetched[j])) =>
                  \E a, b \in 1..Len(perm) : a < b /\ perm[a] = i /\ perm[b] = j

\* a descending listing where the first and third fetched records carry the
\* same timestamp and the second a later one
C4_Witness ==
    /\ op = "list_feed" /\ status = "ok"
    /\ Len(ret) = 3
    /\ Has(fetched[1], "created_at") /\ Has(fetched[3], "created_at")
    /\ When(fetched[1], "created_at") = When(fetched[3], "created_at")
    /\ When(fetched[2], "created_at") > When(fetched[1], "created_at")
    /\ perm = <<2, 1, 3>>

\* ------------------------------------------------------------------ C5
IsDigitAt(s, i) == s[i] >= 48 /\ s[i] <= 57

\* YYYY-MM-DDTHH:MM:SS
WellFormedIso(s) ==
    /\ Len(s) = 19
    /\ s[5] = 45 /\ s[8] = 45 /\ s[11] = 84 /\ s[14] = 58 /\ s[17] = 58
    /\ \A i \in (1..19) \ {5, 8, 11, 14, 17} : IsDigitAt(s, i)

Num2(s, i) == (s[i] - 48) * 10 + (s[i + 1] - 48)
Num4(s, i) == Num2(s, i) * 100 + Num2(s, i + 2)

LeapYear(y) == y % 4 = 0 /\ (y % 100 # 0 \/ y % 400 = 0)

MonthLength(y, m) ==
    IF m = 2 THEN (IF LeapYear(y) THEN 29 ELSE 28)
    ELSE IF m \in {4, 6, 9, 11} THEN 30 ELSE 31

RECURSIVE DaysBeforeMonthOf(_, _)
DaysBeforeMonthOf(y, m) == IF m <= 1 THEN 0 ELSE DaysBeforeMonthOf(y, m - 1) + MonthLength(y, m - 1)

DaysBeforeYear(y) == (y - 1) * 365 + (y - 1) \div 4 - (y - 1) \div 100 + (y - 1) \div 400

\* the timestamp an ISO-8601 string denotes, in hours since 0001-01-01T00:00:00
IsoHours(s) ==
    (DaysBeforeYear(Num4(s, 1)) + DaysBeforeMonthOf(Num4(s, 1), Num2(s, 6)) + Num2(s, 9) - 1) * 24
    + Num2(s, 12)

\* s is the ISO-8601 text of timestamp dt
IsIsoOf(s, dt) ==
    /\ s.t = "str"
    /\ WellFormedIso(s.v)
    /\ Num2(s.v, 6) \in 1..12
    /\ Num2(s.v, 9) \in 1..MonthLength(Num4(s.v, 1), Num2(s.v, 6))
    /\ Num2(s.v, 12) \in 0..23 /\ Num2(s.v, 15) = 0 /\ Num2(s.v, 18) = 0
    /\ IsoHours(s.v) = dt.v[1]

\* C5: for a non-empty stored record R, serialize(R) has `id` equal to the
\* string form of R's `_id`, has no `_id`, has every timestamp field replaced
\* by its ISO-8601 string and every other field with the value it has in R.
C5_Serialize ==
    (op = "_serialize" /\ arg # EmptyDoc) =>
        LET out == ret[1]
        IN  /\ DOMAIN out = (DOMAIN arg \ {"_id"}) \cup {"id"}
            /\ IsIdString(out["id"], arg["_id"])
            /\ \A k \in DOMAIN arg \ {"_id"} :
                  IF arg[k].t = "datetime" THEN IsIsoOf(out[k], arg[k]) ELSE out[k] = arg[k]

\* a lesson stamped 2024-02-29T23:00:00 was serialized: its date became the
\* ISO string and its title stayed as it was
C5_Witness ==
    /\ op = "_serialize"
    /\ Has(arg, "_id") /\ Has(arg, "title") /\ Has(arg, "date")
    /\ arg["date"] = DateTime(17734679)
    /\ ret[1]["date"] = Str((* "2024-02-29T23:00:00" *) <<50, 48, 50, 52, 45, 48, 50, 45, 50, 57, 84, 50, 51, 58, 48, 48, 58, 48, 48>>)
    /\ ret[1]["title"] = Str((* "Poetry Analysis" *) <<80, 111, 101, 116, 114, 121, 32, 65, 110, 97, 108, 121, 115, 105, 115>>)

\* ------------------------------------------------------------------ C6
\* C6: serializing an already serialized record is a pass-through for every
\* field already in string form, `id` included.
C6_Reserialize ==
    op = "_serialize_again" =>
        LET once == _serialize(arg)
            twice == ret[1]
        IN  \A k \in DOMAIN once :
                once[k].t = "str" => (k \in DOMAIN twice /\ twice[k] = once[k])

\* ------------------------------------------------------------------ C7
\* C7: serialize and the ordering step are pure: after serialize(R) the record
\* passed in still has its `_id` and its timestamp values, and after a listing
\* the fetched sequence holds the same records in the same order.
C7_Pure ==
    /\ (op = "_serialize" /\ arg # EmptyDoc) =>
          /\ Has(objs[1], "_id") /\ objs[1]["_id"] = arg["_id"]
          /\ \A k \in DOMAIN arg : arg[k].t = "datetime" => (Has(objs[1], k) /\ objs[1][k] = arg[k])
    /\ Listed =>
          /\ Len(objs) = Len(fetched)
          /\ \A i \in 1..Len(fetched) :
                IF Has(objs[i], "_id")
                THEN objs[i]["_id"] = fetched[i]["_id"]
                ELSE Has(objs[i], "id") /\ IsIdString(objs[i]["id"], fetched[i]["_id"])

\* ------------------------------------------------------------------ C8
\* C8: when the store was never configured, every listing, creation, seed and
\* _collection call, for known and unknown collection names, ends in the
\* store-unavailable error, answers nothing and leaves the store untouched.
C8_StoreUnavailable ==
    (~db /\ op # "idle") =>
        /\ status = StoreUnavailable
        /\ message = ""
        /\ fetched = <<>> /\ objs = <<>> /\ ret = <<>>
        /\ \A c \in Collections : store[c] = <<>>
        /\ nextId = 1 /\ seedInserts = 0

\* _collection was called on an unconfigured store and signalled the error
C8_Witness == ~db /\ op = "_collection" /\ status = StoreUnavailable

\* ------------------------------------------------------------------ C9
IsSeedCall == op' = "seed_demo_data" /\ db

Grows(c, n) == Len(store'[c]) = Len(store[c]) + n /\ SubSeq(store'[c], 1, Len(store[c])) = store[c]

\* the demo records in the order seed_demo_data stores them: collection, a
\* field and its text
DemoList == <<
    <<"feedpost", "author_name", Str((* "Ms. Carter" *) <<77, 115, 46, 32, 67, 97, 114, 116, 101, 114>>)>>,
    <<"feedpost", "author_name", Str((* "Sports Dept." *) <<83, 112, 111, 114, 116, 115, 32, 68, 101, 112, 116, 46>>)>>,
    <<"feedpost", "author_name", Str((* "Science Club" *) <<83, 99, 105, 101, 110, 99, 101, 32, 67, 108, 117, 98>>)>>,
    <<"scheduleitem", "subject", Str((* "Math" *) <<77, 97, 116, 104>>)>>,
    <<"scheduleitem", "subject", Str((* "English" *) <<69, 110, 103, 108, 105, 115, 104>>)>>,
    <<"scheduleitem", "subject", Str((* "Chemistry" *) <<67, 104, 101, 109, 105, 115, 116, 114, 121>>)>>,
    <<"scheduleitem", "subject", Str((* "History" *) <<72, 105, 115, 116, 111, 114, 121>>)>>,
    <<"scheduleitem", "subject", Str((* "Physics" *) <<80, 104, 121, 115, 105, 99, 115>>)>>,
    <<"scheduleitem", "subject", Str((* "Art" *) <<65, 114, 116>>)>>,
    <<"lesson", "title", Str((* "Quadratic Functions" *) <<81, 117, 97, 100, 114, 97, 116, 105, 99, 32, 70, 117, 110, 99, 116, 105, 111, 110, 115>>)>>,
    <<"lesson", "title", Str((* "Poetry Analysis" *) <<80, 111, 101, 116, 114, 121, 32, 65, 110, 97, 108, 121, 115, 105, 115>>)>>,
    <<"grade", "assignment", Str((* "Algebra Quiz" *) <<65, 108, 103, 101, 98, 114, 97, 32, 81, 117, 105, 122>>)>>,
    <<"grade", "assignment", Str((* "Essay Draft" *) <<69, 115, 115, 97, 121, 32, 68, 114, 97, 102, 116>>)>>,
    <<"assessment", "title", Str((* "Chemistry Lab Report" *) <<67, 104, 101, 109, 105, 115, 116, 114, 121, 32, 76, 97, 98, 32, 82, 101, 112, 111, 114, 116>>)>>,
    <<"assessment", "title", Str((* "Physics Midterm" *) <<80, 104, 121, 115, 105, 99, 115, 32, 77, 105, 100, 116, 101, 114, 109>>)>> >>

\* the step appends the first k demo records, each to its collection, and
\* nothing else
StoresFirst(k) ==
    \A c \in Collections :
        LET InC(e) == e[1] = c
            expected == SelectSeq(SubSeq(DemoList, 1, k), InC)
        IN  /\ Grows(c, Len(expected))
            /\ \A j \in 1..Len(expected) :
                   /\ Has(store'[c][Len(store[c]) + j], expected[j][2])
                   /\ store'[c][Len(store[c]) + j][expected[j][2]] = expected[j][3]

\* C9 as stated: the demo records are inserted at most once: a seed call on a
\* non-empty feedpost collection inserts nothing and reports "Already seeded";
\* a seed call on an empty one inserts the full list of 3 feed posts,
\* 6 schedule items, 2 lessons, 2 grades and 2 assessments.
C9_AsStated ==
    /\ [](seedInserts <= SeedSize)
    /\ [][IsSeedCall =>
            IF Len(store["feedpost"]) > 0
            THEN store' = store /\ nextId' = nextId /\ message' = "Already seeded"
            ELSE StoresFirst(SeedSize) /\ message' = "Seeded demo content"]_vars

\* C9, amended: no demo record is inserted more than once, so at most
\* SeedSize of them are ever stored. A seed call on a non-empty feedpost
\* collection inserts nothing and reports "Already seeded", unless the store
\* rejects the count query and the call ends in that error. A seed call on an
\* empty feedpost collection stores the demo records in list order up to the
\* first insert the store rejects: all of them, reporting "Seeded demo
\* content", when none is rejected; otherwise the call ends in the store's
\* error and the records stored before it stay.
C9_SeedOnce ==
    /\ [](seedInserts <= SeedSize)
    /\ [][IsSeedCall =>
            IF Len(store["feedpost"]) > 0
            THEN /\ store' = store /\ nextId' = nextId
                 /\ \/ status' = "ok" /\ message' = "Already seeded"
                    \/ status' = StoreQueryFailed /\ message' = ""
            ELSE \E k \in 0..SeedSize :
                     /\ StoresFirst(k)
                     /\ nextId' = nextId + k
                     /\ IF k = SeedSize
                        THEN status' = "ok" /\ message' = "Seeded demo content"
                        ELSE status' = StoreQueryFailed /\ message' = ""]_vars

\* a seed call answered "Already seeded" on a store that holds one demo post
\* only, the second insert of an earlier seed call having been rejected, and
\* two created records
C9_Witness ==
    /\ op = "seed_demo_data" /\ status = "ok" /\ message = "Already seeded"
    /\ seedInserts = 1
    /\ Len(store["feedpost"]) = 1 /\ Len(store["scheduleitem"]) = 0
    /\ Len(store["lesson"]) = 1 /\ Len(store["grade"]) = 1

\* ------------------------------------------------------------------ C10
\* the collection a listing reads
Listed_collection ==
    CASE op = "list_feed" -> "feedpost"
      [] op = "list_schedule" -> "scheduleitem"
      [] op = "list_lessons" -> "lesson"
      [] op = "list_grades" -> "grade"
      [] OTHER -> "assessment"

====
